---- MODULE Spec2Model ----
(***************************************************************************)
(* Verification model of the Tusker backend core (src-tauri/src):          *)
(*   - MigrationOperations::execute_migration      (db/data.rs)            *)
(*   - ConnectionManager and its registry lock     (db/connection.rs)      *)
(*   - CredentialStorage and the saved-connection commands                 *)
(*                                      (db/connection.rs, commands.rs)    *)
(*   - CommitStore::save_commit                    (db/commit_store.rs)    *)
(*   - the encrypted export file                   (db/export.rs)          *)
(*   - DataOperations: paginated fetch, insert, update, delete             *)
(*                                                  (db/data.rs)           *)
(* Each subsystem has its own specification (SpecMig, SpecConn, SpecPool,  *)
(* SpecCred, SpecCommit, SpecExport, SpecIndex, SpecData, SpecLive) over   *)
(* the shared variables; a subsystem's actions leave the other             *)
(* subsystems' variables unchanged.                                        *)
(***************************************************************************)
EXTENDS Integers, Sequences, FiniteSets, TLC

VARIABLES
    \* ---- PostgreSQL server session used by execute_migration ----
    pg,          \* [db, inTx, work, aborted, savepoints]
    \* ---- execute_migration (db/data.rs) ----
    mpc,         \* position inside execute_migration
    statements,  \* request: &[String]
    dry_run,     \* request: bool
    setupIdx,    \* index into setup_sqls
    i,           \* position of the loop over statements (1-based)
    results,     \* Vec<StatementResult>
    all_ok,      \* bool
    mresult,     \* value returned by execute_migration
    \* ---- ConnectionManager (db/connection.rs) ----
    active_connections, \* HashMap<String, ActiveConnection>: id -> pool
    pools,       \* state of every pool created so far
    lockWriter,  \* task holding the write guard of the RwLock, 0 if none
    draining,    \* pools taken by disconnect_all's drain(), not yet closed
    tpc,         \* per task: position inside its ConnectionManager call
    tcall,       \* per task: the call it runs
    tpool,       \* per task: the pool held in a local
    response,    \* the value most recently returned by a call
    \* ---- OS keyring used by CredentialStorage (db/connection.rs) ----
    keyring_connections, \* the shared "connections" entry: [present, json]
    keyring_passwords,   \* the per-id entries: id -> password
    credCall,    \* the credential command that ran last, with its arguments
    credRet,     \* what it returned
    \* ---- CommitStore: one project's SQLite file (db/commit_store.rs) ----
    commits,     \* rows of table commits with their commit_changes rows
    pending,     \* parent ids read by the save_commit calls in flight
    \* ---- the export file at file_path (db/export.rs) ----
    file,        \* content of the file: [bytes, body]
    wpc,         \* position of encrypt_and_write inside std::fs::write
    wdata,       \* file_data built by the encrypt_and_write in progress
    wargs,       \* its arguments: [projects, password]
    written,     \* arguments of the encrypt_and_write that produced file
    xret,        \* result of the last read_and_decrypt of this content
    \* ---- concurrent calls that rewrite the "connections" entry ----
    idx,         \* per caller: [pc, json, id, stale] between read and write
    lastWrite,   \* the last set_password: [json, over, stale]
    \* ---- DataOperations (db/data.rs) ----
    table,       \* the rows of the table on the server
    dcall,       \* the request being served
    dsql,        \* the statements it sent to the server
    dret,        \* its result
    \* ---- operations running on pool handles (commands.rs) ----
    inflight     \* per pool: operations that hold one of its connections

migVars == <<pg, mpc, statements, dry_run, setupIdx, i, results, all_ok, mresult>>

connVars == <<active_connections, pools, lockWriter, draining, tpc, tcall,
              tpool, response>>

credVars == <<keyring_connections, keyring_passwords, credCall, credRet>>

commitVars == <<commits, pending>>

exportVars == <<file, wpc, wdata, wargs, written, xret>>

indexVars == <<idx, lastWrite>>

dataVars == <<table, dcall, dsql, dret>>

workVars == <<inflight>>

vars == <<migVars, connVars, credVars, commitVars, exportVars, indexVars, dataVars,
          workVars>>

\* What the actions of one subsystem leave unchanged.
migOthers == <<connVars, credVars, commitVars, exportVars, indexVars, dataVars,
    workVars>>
connOthers == <<migVars, credVars, commitVars, exportVars, indexVars, dataVars,
    workVars>>
credOthers == <<migVars, connVars, commitVars, exportVars, indexVars, dataVars,
    workVars>>
commitOthers == <<migVars, connVars, credVars, exportVars, indexVars, dataVars,
    workVars>>
exportOthers == <<migVars, connVars, credVars, commitVars, indexVars, dataVars,
    workVars>>
indexOthers == <<migVars, connVars, commitVars, exportVars, credCall, credRet, dataVars,
    workVars>>
dataOthers == <<migVars, connVars, credVars, commitVars, exportVars, indexVars,
    workVars>>
workOthers == <<migVars, connVars, credVars, commitVars, exportVars, indexVars, dataVars>>

(***************************************************************************)
(* Bounds                                                                  *)
(***************************************************************************)
MaxStmts == 3
NumTasks == 2
NumIds == 1
MaxPools == 2
NumSavedIds == 2
MaxImport == 2
MaxCommits == 2
MaxTime == 2
MaxProjects == 1
MaxRows == 2

(***************************************************************************)
(* SQL text.  A Rust String holding SQL is modelled as a sequence of       *)
(* tokens; a token is either white space or one SQL command text.          *)
(***************************************************************************)
WS == " "

CreateA == "CREATE TABLE a (id int)"
RenameAB == "ALTER TABLE a RENAME TO b"
AlterB == "ALTER TABLE b ADD c int"
DivZero == "SELECT 1/0"
CommitSql == "COMMIT"

Words == {CreateA, RenameAB, AlterB, DivZero, CommitSql}

\* The statement strings a caller may put into MigrationRequest.statements.
StmtInputs ==
    {<<>>, <<WS>>} \cup {<<w>> : w \in Words} \cup {<<WS, w, WS>> : w \in Words}

RECURSIVE TrimStart(_)
TrimStart(s) ==
    IF s # <<>> /\ Head(s) = WS THEN TrimStart(Tail(s)) ELSE s

RECURSIVE TrimEnd(_)
TrimEnd(s) ==
    IF s # <<>> /\ s[Len(s)] = WS THEN TrimEnd(SubSeq(s, 1, Len(s) - 1)) ELSE s

\* str::trim
Trim(s) == TrimEnd(TrimStart(s))

(***************************************************************************)
(* The PostgreSQL session the statements are sent to.  The database is a   *)
(* set of catalog facts: "a" / "b" = the table exists, "b.c" = column c of *)
(* table b exists.                                                         *)
(***************************************************************************)
InitDb == {"a"}

PgInit == [db |-> InitDb, inTx |-> FALSE, work |-> {}, aborted |-> FALSE,
           savepoints |-> <<>>]

\* What a statement sees: the transaction's working state inside a
\* transaction block, the committed database otherwise.
Visible(p) == IF p.inTx THEN p.work ELSE p.db

\* Does the command succeed on catalog state s?
CanExec(w, s) ==
    CASE w = CreateA  -> "a" \notin s
      [] w = RenameAB -> "a" \in s /\ "b" \notin s
      [] w = AlterB   -> "b" \in s /\ "b.c" \notin s
      [] w = DivZero  -> FALSE
      [] OTHER        -> TRUE

\* Catalog state after the command succeeded on s.
Effect(w, s) ==
    CASE w = CreateA  -> s \cup {"a"}
      [] w = RenameAB -> (s \ {"a"}) \cup {"b"}
      [] w = AlterB   -> s \cup {"b.c"}
      [] OTHER        -> s

\* BEGIN
PgBegin(p) ==
    IF p.inTx THEN p
    ELSE [p EXCEPT !.inTx = TRUE, !.work = p.db, !.aborted = FALSE,
                   !.savepoints = <<>>]

\* ROLLBACK (also what the server does for a dropped transaction).
PgRollback(p) ==
    [p EXCEPT !.inTx = FALSE, !.work = {}, !.aborted = FALSE,
              !.savepoints = <<>>]

\* COMMIT: makes the working state durable; in an aborted transaction it
\* acts as ROLLBACK; outside a transaction block it only raises a warning.
PgCommit(p) ==
    IF p.inTx /\ ~p.aborted
    THEN [PgRollback(p) EXCEPT !.db = p.work]
    ELSE PgRollback(p)

\* Positions of the savepoints called name.
SpPositions(p, name) ==
    {k \in 1..Len(p.savepoints) : p.savepoints[k].name = name}

Max(S) == CHOOSE x \in S : \A y \in S : y <= x

\* SAVEPOINT name: [pg, ok]
PgSavepoint(p, name) ==
    IF ~p.inTx THEN [pg |-> p, ok |-> FALSE]
    ELSE IF p.aborted THEN [pg |-> p, ok |-> FALSE]
    ELSE [pg |-> [p EXCEPT !.savepoints =
                      Append(@, [name |-> name, snap |-> p.work])],
          ok |-> TRUE]

\* ROLLBACK TO SAVEPOINT name: [pg, ok]
PgRollbackTo(p, name) ==
    IF ~p.inTx THEN [pg |-> p, ok |-> FALSE]
    ELSE IF SpPositions(p, name) = {}
         THEN [pg |-> [p EXCEPT !.aborted = TRUE], ok |-> FALSE]
    ELSE LET k == Max(SpPositions(p, name)) IN
         [pg |-> [p EXCEPT !.work = p.savepoints[k].snap,
                           !.aborted = FALSE,
                           !.savepoints = SubSeq(@, 1, k)],
          ok |-> TRUE]

\* One statement text sent with sqlx::query(sql).execute(&mut *tx): [pg, ok]
PgExecute(p, sql) ==
    LET w == sql[1] IN
    IF w = CommitSql THEN [pg |-> PgCommit(p), ok |-> TRUE]
    ELSE IF p.inTx /\ p.aborted THEN [pg |-> p, ok |-> FALSE]
    ELSE IF ~CanExec(w, Visible(p))
         THEN [pg |-> [p EXCEPT !.aborted = p.inTx], ok |-> FALSE]
    ELSE IF p.inTx
         THEN [pg |-> [p EXCEPT !.work = Effect(w, p.work)], ok |-> TRUE]
    ELSE [pg |-> [p EXCEPT !.db = Effect(w, p.db)], ok |-> TRUE]

(***************************************************************************)
(* execute_migration                                                       *)
(***************************************************************************)
setup_sqls ==
    << <<"SET LOCAL lock_timeout">>,
       <<"SET LOCAL statement_timeout">>,
       <<"SET LOCAL idle_in_transaction_session_timeout">>,
       <<"SET LOCAL application_name">> >>

\* Mutant: a failed entry carries no error.
StatementResult_NoError(sql, ok) == [sql |-> sql, ok |-> ok, error |-> "None"]

\* StatementResult (durations and row counts are not modelled)
StatementResult(sql, ok) ==
    [sql |-> sql, ok |-> ok, error |-> IF ok THEN "None" ELSE "Some"]

NoResult ==
    [ret |-> "None", ok |-> FALSE, dry_run |-> FALSE, committed |-> FALSE,
     statements |-> <<>>]

ErrResult == [NoResult EXCEPT !.ret = "Err"]

\* Ok(MigrationResult { .. })
MigrationResult(ok, dry, committed, stmts) ==
    [ret |-> "Ok", ok |-> ok, dry_run |-> dry, committed |-> committed,
     statements |-> stmts]

\* The loop `for (i, stmt) in statements.iter().enumerate()` skips the
\* statements that are empty after trimming without any await: the next
\* position at or after k that holds a non-empty statement.
RECURSIVE NextStmt(_, _)
NextStmt(stmts, k) ==
    IF k > Len(stmts) THEN k
    ELSE IF Trim(stmts[k]) = <<>> THEN NextStmt(stmts, k + 1)
    ELSE k

\* Where the executor continues once position k is reached.
LoopPc(stmts, k) == IF k > Len(stmts) THEN "finalize" ELSE "loop"

\* let sp_name = format!("s{i}") with i the 0-based enumerate index
sp_name(k) == k - 1

MigInit ==
    /\ pg = PgInit
    /\ mpc = "idle"
    /\ statements = <<>>
    /\ dry_run = FALSE
    /\ setupIdx = 0
    /\ i = 0
    /\ results = <<>>
    /\ all_ok = TRUE
    /\ mresult = NoResult

StmtLists == UNION {[1..n -> StmtInputs] : n \in 0..MaxStmts}

\* let mut tx = pool.begin().await?  -- success
MigBegin ==
    /\ mpc = "idle"
    /\ \E stmts \in StmtLists, dry \in BOOLEAN :
          /\ statements' = stmts
          /\ dry_run' = dry
    /\ pg' = PgBegin(pg)
    /\ mpc' = "setup"
    /\ setupIdx' = 1
    /\ UNCHANGED <<i, results, all_ok, mresult>>
    /\ UNCHANGED migOthers

\* let mut tx = pool.begin().await?  -- failure propagates as Err
MigBeginFail ==
    /\ mpc = "idle"
    /\ \E stmts \in StmtLists, dry \in BOOLEAN :
          /\ statements' = stmts
          /\ dry_run' = dry
    /\ mpc' = "done"
    /\ mresult' = ErrResult
    /\ UNCHANGED <<pg, setupIdx, i, results, all_ok>>
    /\ UNCHANGED migOthers

\* One SET LOCAL statement succeeds.
MigSetupOk ==
    /\ mpc = "setup"
    /\ IF setupIdx < Len(setup_sqls)
       THEN /\ setupIdx' = setupIdx + 1
            /\ UNCHANGED <<mpc, i>>
       ELSE /\ i' = NextStmt(statements, 1)
            /\ mpc' = LoopPc(statements, i')
            /\ UNCHANGED setupIdx
    /\ UNCHANGED <<pg, statements, dry_run, results, all_ok, mresult>>
    /\ UNCHANGED migOthers

\* Mutant: the report of a failed SET LOCAL also lists the SET LOCAL
\* statements that succeeded before it.
MigSetupFail_ReportsAll ==
    /\ mpc = "setup"
    /\ mresult' = MigrationResult(FALSE, dry_run, FALSE,
                      [k \in 1..setupIdx |->
                          StatementResult(setup_sqls[k], k < setupIdx)])
    /\ pg' = PgRollback(pg)
    /\ mpc' = "done"
    /\ UNCHANGED <<statements, dry_run, setupIdx, i, results, all_ok>>
    /\ UNCHANGED migOthers

\* One SET LOCAL statement fails: single-entry result, tx dropped.
MigSetupFail ==
    /\ mpc = "setup"
    /\ mresult' = MigrationResult(FALSE, dry_run, FALSE,
                      <<StatementResult(setup_sqls[setupIdx], FALSE)>>)
    /\ pg' = PgRollback(pg)
    /\ mpc' = "done"
    /\ UNCHANGED <<statements, dry_run, setupIdx, i, results, all_ok>>
    /\ UNCHANGED migOthers

\* Dry-run: SAVEPOINT s{i}; its outcome is discarded (let _ = ..).
MigSavepoint ==
    /\ mpc = "loop"
    /\ dry_run
    /\ pg' = PgSavepoint(pg, sp_name(i)).pg
    /\ mpc' = "exec"
    /\ UNCHANGED <<statements, dry_run, setupIdx, i, results, all_ok, mresult>>
    /\ UNCHANGED migOthers

\* Mutant: the failing statement is not rolled back to its savepoint.
RollbackToSavepoint_Skipped(p, name) == p

\* Dry-run: ROLLBACK TO SAVEPOINT s{i}; its outcome is discarded.
RollbackToSavepoint(p, name) == PgRollbackTo(p, name).pg

\* Dry-run: the statement itself.
MigDryExec ==
    /\ mpc = "exec"
    /\ LET trimmed == Trim(statements[i])
           r == PgExecute(pg, trimmed)
       IN /\ pg' = r.pg
          /\ results' = Append(results, StatementResult(trimmed, r.ok))
          /\ IF r.ok
             THEN /\ i' = NextStmt(statements, i + 1)
                  /\ mpc' = LoopPc(statements, i')
                  /\ UNCHANGED all_ok
             ELSE /\ all_ok' = FALSE
                  /\ mpc' = "rollback_to"
                  /\ UNCHANGED i
    /\ UNCHANGED <<statements, dry_run, setupIdx, mresult>>
    /\ UNCHANGED migOthers

MigDryRollbackTo ==
    /\ mpc = "rollback_to"
    /\ pg' = RollbackToSavepoint(pg, sp_name(i))
    /\ i' = NextStmt(statements, i + 1)
    /\ mpc' = LoopPc(statements, i')
    /\ UNCHANGED <<statements, dry_run, setupIdx, results, all_ok, mresult>>
    /\ UNCHANGED migOthers

\* Apply mode: execute directly, return on the first error (the dropped
\* transaction is rolled back).
MigApplyExec ==
    /\ mpc = "loop"
    /\ ~dry_run
    /\ LET trimmed == Trim(statements[i])
           r == PgExecute(pg, trimmed)
       IN /\ results' = Append(results, StatementResult(trimmed, r.ok))
          /\ IF r.ok
             THEN /\ pg' = r.pg
                  /\ i' = NextStmt(statements, i + 1)
                  /\ mpc' = LoopPc(statements, i')
                  /\ UNCHANGED mresult
             ELSE /\ pg' = PgRollback(r.pg)
                  /\ mresult' = MigrationResult(FALSE, dry_run, FALSE, results')
                  /\ mpc' = "done"
                  /\ UNCHANGED i
    /\ UNCHANGED <<statements, dry_run, setupIdx, all_ok>>
    /\ UNCHANGED migOthers

\* Finalize, dry-run: tx.rollback().await.ok()
MigFinalizeRollback ==
    /\ mpc = "finalize"
    /\ dry_run
    /\ pg' = PgRollback(pg)
    /\ mresult' = MigrationResult(all_ok, dry_run, FALSE, results)
    /\ mpc' = "done"
    /\ UNCHANGED <<statements, dry_run, setupIdx, i, results, all_ok>>
    /\ UNCHANGED migOthers

\* Mutant: the apply path rolls the transaction back and reports a commit.
MigFinalizeCommit_RollsBack ==
    /\ mpc = "finalize"
    /\ ~dry_run
    /\ pg' = PgRollback(pg)
    /\ mresult' = MigrationResult(all_ok, dry_run, TRUE, results)
    /\ mpc' = "done"
    /\ UNCHANGED <<statements, dry_run, setupIdx, i, results, all_ok>>
    /\ UNCHANGED migOthers

\* Finalize, apply: tx.commit() succeeds.
MigFinalizeCommit ==
    /\ mpc = "finalize"
    /\ ~dry_run
    /\ pg' = PgCommit(pg)
    /\ mresult' = MigrationResult(all_ok, dry_run, TRUE, results)
    /\ mpc' = "done"
    /\ UNCHANGED <<statements, dry_run, setupIdx, i, results, all_ok>>
    /\ UNCHANGED migOthers

\* Finalize, apply: tx.commit() fails; a synthetic COMMIT entry is appended.
MigFinalizeCommitFail ==
    /\ mpc = "finalize"
    /\ ~dry_run
    /\ pg' = PgRollback(pg)
    /\ results' = Append(results, StatementResult(<<CommitSql>>, FALSE))
    /\ all_ok' = FALSE
    /\ mresult' = MigrationResult(all_ok', dry_run, FALSE, results')
    /\ mpc' = "done"
    /\ UNCHANGED <<statements, dry_run, setupIdx, i>>
    /\ UNCHANGED migOthers

\* The future of execute_migration dropped by its caller: no value is
\* returned.
CancelledResult == [NoResult EXCEPT !.ret = "Cancelled"]

\* The points where execute_migration awaits a request on tx.
SuspensionPoints == {"setup", "loop", "exec", "rollback_to", "finalize"}

\* What the server has done once the request awaited at the current point
\* has been processed: a user statement (apply: "loop", dry-run: "exec") or
\* the final tx.commit().
InFlight(p) ==
    CASE mpc = "exec" -> PgExecute(p, Trim(statements[i])).pg
      [] mpc = "loop" /\ ~dry_run -> PgExecute(p, Trim(statements[i])).pg
      [] mpc = "finalize" /\ ~dry_run -> PgCommit(p)
      [] OTHER -> p

\* The caller drops the future at an .await before the awaited request
\* reached the server; dropping tx rolls the transaction back.
MigCancel ==
    /\ mpc \in SuspensionPoints
    /\ pg' = PgRollback(pg)
    /\ mresult' = CancelledResult
    /\ mpc' = "done"
    /\ UNCHANGED <<statements, dry_run, setupIdx, i, results, all_ok>>
    /\ UNCHANGED migOthers

\* The caller drops the future at an .await after the server processed the
\* awaited request and before the reply was read.
MigCancelInFlight ==
    /\ mpc \in SuspensionPoints
    /\ InFlight(pg) # pg
    /\ pg' = PgRollback(InFlight(pg))
    /\ mresult' = CancelledResult
    /\ mpc' = "done"
    /\ UNCHANGED <<statements, dry_run, setupIdx, i, results, all_ok>>
    /\ UNCHANGED migOthers

NextMig ==
    \/ MigCancel
    \/ MigCancelInFlight
    \/ MigBegin
    \/ MigBeginFail
    \/ MigSetupOk
    \/ MigSetupFail
    \/ MigSavepoint
    \/ MigDryExec
    \/ MigDryRollbackTo
    \/ MigApplyExec
    \/ MigFinalizeRollback
    \/ MigFinalizeCommit
    \/ MigFinalizeCommitFail

(***************************************************************************)
(* ConnectionManager                                                       *)
(*                                                                         *)
(* Every request is a task.  A task's call is split at its awaits: lock    *)
(* acquisitions, pool creation with the probe, and pool.close().  A read   *)
(* guard is never held across another await, so only the write guard is    *)
(* state.  `response` is the value most recently returned to a caller.     *)
(***************************************************************************)
Tasks == 1..NumTasks
ConnIds == 1..NumIds
PoolIds == 1..MaxPools
NoTask == 0
NoPool == 0

NoCall == [op |-> "none", id |-> 0]

\* A value returned to the caller of op(id): ret is "Ok" or the error kind
\* (for is_connected "true" / "false"); pool is the handle get_pool returns.
Response(call, ret, pool) ==
    [op |-> call.op, id |-> call.id, ret |-> ret, pool |-> pool]

ConnInit ==
    /\ active_connections = << >>
    /\ pools = [q \in PoolIds |-> "unused"]
    /\ lockWriter = NoTask
    /\ draining = {}
    /\ tpc = [t \in Tasks |-> "idle"]
    /\ tcall = [t \in Tasks |-> NoCall]
    /\ tpool = [t \in Tasks |-> NoPool]
    /\ response = Response(NoCall, "none", NoPool)

\* self.active_connections.read().await is granted
CanRead == lockWriter = NoTask

\* self.active_connections.write().await is granted
CanWrite == lockWriter = NoTask

\* A task is called with op(id) and reaches its first await.
Call(t, op, id, pc) ==
    /\ tpc[t] = "idle"
    /\ tpc' = [tpc EXCEPT ![t] = pc]
    /\ tcall' = [tcall EXCEPT ![t] = [op |-> op, id |-> id]]
    /\ UNCHANGED <<active_connections, pools, lockWriter, draining, tpool,
                   response>>

\* A task returns ret (and the pool handle q) to its caller.
Return(t, ret, q) ==
    /\ tpc' = [tpc EXCEPT ![t] = "idle"]
    /\ tcall' = [tcall EXCEPT ![t] = NoCall]
    /\ tpool' = [tpool EXCEPT ![t] = NoPool]
    /\ response' = Response(tcall[t], ret, q)

\* HashMap::insert
MapInsert(m, id, q) == [k \in (DOMAIN m) \cup {id} |-> IF k = id THEN q ELSE m[k]]

\* HashMap::remove
MapRemove(m, id) == [k \in (DOMAIN m) \ {id} |-> m[k]]

\* A task calls connect(config, password) with config.id = id.
ConnectCall(t, id) ==
    /\ Call(t, "connect", id, "conn_check")
    /\ UNCHANGED connOthers

\* Mutant: the registry is not consulted.
AlreadyConnected_Never(m, id) == FALSE

\* connect: the check under the read guard -- is the id registered?
AlreadyConnected(m, id) == id \in DOMAIN m

\* connect: "Check if already connected"
ConnectCheck(t) ==
    /\ tpc[t] = "conn_check"
    /\ CanRead
    /\ IF AlreadyConnected(active_connections, tcall[t].id)
       THEN Return(t, "ConnectionAlreadyExists", NoPool)
       ELSE /\ tpc' = [tpc EXCEPT ![t] = "conn_pool"]
            /\ UNCHANGED <<tcall, tpool, response>>
    /\ UNCHANGED <<active_connections, pools, lockWriter, draining>>
    /\ UNCHANGED connOthers

\* connect: PgPoolOptions::connect and the SELECT 1 probe succeed
ConnectPool(t) ==
    /\ tpc[t] = "conn_pool"
    /\ \E q \in PoolIds :
          /\ pools[q] = "unused"
          /\ \A r \in PoolIds : r < q => pools[r] # "unused"
          /\ pools' = [pools EXCEPT ![q] = "open"]
          /\ tpool' = [tpool EXCEPT ![t] = q]
    /\ tpc' = [tpc EXCEPT ![t] = "conn_insert"]
    /\ UNCHANGED <<active_connections, lockWriter, draining, tcall, response>>
    /\ UNCHANGED connOthers

\* connect: PgPoolOptions::connect or the probe fails (`?`); a pool that
\* was created is dropped with the local
ConnectPoolFail(t) ==
    /\ tpc[t] = "conn_pool"
    /\ Return(t, "Database", NoPool)
    /\ UNCHANGED <<active_connections, pools, lockWriter, draining>>
    /\ UNCHANGED connOthers

\* connect: connections.insert(connection_id, active_connection) under the
\* write guard; a value already stored under the key is dropped.
ConnectInsert(t) ==
    /\ tpc[t] = "conn_insert"
    /\ CanWrite
    /\ LET id == tcall[t].id IN
       /\ active_connections' = MapInsert(active_connections, id, tpool[t])
       /\ pools' = IF id \in DOMAIN active_connections
                   THEN [pools EXCEPT ![active_connections[id]] = "dropped"]
                   ELSE pools
    /\ Return(t, "Ok", NoPool)
    /\ UNCHANGED <<lockWriter, draining>>
    /\ UNCHANGED connOthers

\* A task calls disconnect(connection_id).
DisconnectCall(t, id) ==
    /\ Call(t, "disconnect", id, "disc_remove")
    /\ UNCHANGED connOthers

\* Mutant: the entry is looked up but stays in the map.
DisconnectRemove_Keeps(m, id) == m

\* disconnect: the map after `connections.remove(connection_id)`
DisconnectRemove(m, id) == MapRemove(m, id)

\* disconnect: take the write guard and remove the entry
Disconnect(t) ==
    /\ tpc[t] = "disc_remove"
    /\ CanWrite
    /\ LET id == tcall[t].id IN
       IF id \in DOMAIN active_connections
       THEN /\ active_connections' = DisconnectRemove(active_connections, id)
            /\ tpool' = [tpool EXCEPT ![t] = active_connections[id]]
            /\ lockWriter' = t
            /\ tpc' = [tpc EXCEPT ![t] = "disc_close"]
            /\ UNCHANGED <<tcall, response>>
       ELSE /\ Return(t, "ConnectionNotFound", NoPool)
            /\ UNCHANGED <<active_connections, lockWriter>>
    /\ UNCHANGED <<pools, draining>>
    /\ UNCHANGED connOthers

\* disconnect: connection.pool.close().await completes, guard released
DisconnectClose(t) ==
    /\ tpc[t] = "disc_close"
    /\ pools' = [pools EXCEPT ![tpool[t]] = "closed"]
    /\ lockWriter' = NoTask
    /\ Return(t, "Ok", NoPool)
    /\ UNCHANGED <<active_connections, draining>>
    /\ UNCHANGED connOthers

\* disconnect_all: take the write guard; drain() empties the map
DisconnectAll(t) ==
    /\ tpc[t] = "idle"
    /\ CanWrite
    /\ tcall' = [tcall EXCEPT ![t] = [op |-> "disconnect_all", id |-> 0]]
    /\ lockWriter' = t
    /\ draining' = {active_connections[id] : id \in DOMAIN active_connections}
    /\ active_connections' = << >>
    /\ tpc' = [tpc EXCEPT ![t] = "disc_all"]
    /\ UNCHANGED <<pools, tpool, response>>
    /\ UNCHANGED connOthers

\* disconnect_all: one connection.pool.close().await of the loop completes
DisconnectAllClose(t) ==
    /\ tpc[t] = "disc_all"
    /\ \E q \in draining :
          /\ pools' = [pools EXCEPT ![q] = "closed"]
          /\ draining' = draining \ {q}
    /\ UNCHANGED <<active_connections, lockWriter, tpc, tcall, tpool, response>>
    /\ UNCHANGED connOthers

\* disconnect_all: the loop is over, guard released
DisconnectAllDone(t) ==
    /\ tpc[t] = "disc_all"
    /\ draining = {}
    /\ lockWriter' = NoTask
    /\ Return(t, "Ok", NoPool)
    /\ UNCHANGED <<active_connections, pools, draining>>
    /\ UNCHANGED connOthers

\* A task calls get_pool(connection_id).
GetPoolCall(t, id) ==
    /\ Call(t, "get_pool", id, "get_pool")
    /\ UNCHANGED connOthers

\* get_pool: a clone of the pool, or ConnectionNotFound
GetPool(t) ==
    /\ tpc[t] = "get_pool"
    /\ CanRead
    /\ LET id == tcall[t].id IN
       IF id \in DOMAIN active_connections
       THEN Return(t, "Ok", active_connections[id])
       ELSE Return(t, "ConnectionNotFound", NoPool)
    /\ UNCHANGED <<active_connections, pools, lockWriter, draining>>
    /\ UNCHANGED connOthers

\* A task calls is_connected(connection_id).
IsConnectedCall(t, id) ==
    /\ Call(t, "is_connected", id, "is_connected")
    /\ UNCHANGED connOthers

\* is_connected: contains_key under the read guard
IsConnected(t) ==
    /\ tpc[t] = "is_connected"
    /\ CanRead
    /\ Return(t, IF tcall[t].id \in DOMAIN active_connections
                 THEN "true" ELSE "false", NoPool)
    /\ UNCHANGED <<active_connections, pools, lockWriter, draining>>
    /\ UNCHANGED connOthers

\* Pool::acquire on a handle of pool q fails with PoolClosed: close() has
\* been called on the pool (it marks the pool closed before it awaits).
PoolClosed(q) ==
    \/ pools[q] # "open"
    \/ \E t \in Tasks : tpc[t] = "disc_close" /\ tpool[t] = q

\* The caller that received the handle from the last get_pool runs a query
\* on it (sqlx::query(..).fetch/execute(&pool)).
UsePool ==
    /\ response.op \in {"get_pool", "query"}
    /\ response.pool # NoPool
    /\ response' = [response EXCEPT
                        !.op = "query",
                        !.ret = IF PoolClosed(response.pool)
                                THEN "PoolClosed" ELSE "Ok"]
    /\ response' # response
    /\ UNCHANGED <<active_connections, pools, lockWriter, draining, tpc,
                   tcall, tpool>>
    /\ UNCHANGED connOthers

\* test_connection: PgPoolOptions::connect and SELECT 1 succeed
TestConnection(t) ==
    /\ tpc[t] = "idle"
    /\ \E q \in PoolIds :
          /\ pools[q] = "unused"
          /\ \A r \in PoolIds : r < q => pools[r] # "unused"
          /\ pools' = [pools EXCEPT ![q] = "open"]
          /\ tpool' = [tpool EXCEPT ![t] = q]
    /\ tpc' = [tpc EXCEPT ![t] = "test_close"]
    /\ tcall' = [tcall EXCEPT ![t] = [op |-> "test_connection", id |-> 0]]
    /\ UNCHANGED <<active_connections, lockWriter, draining, response>>
    /\ UNCHANGED connOthers

\* test_connection: PgPoolOptions::connect fails (`?`), no pool exists
TestConnectionFail(t) ==
    /\ tpc[t] = "idle"
    /\ response' = Response([op |-> "test_connection", id |-> 0],
                            "Database", NoPool)
    /\ response' # response
    /\ UNCHANGED <<active_connections, pools, lockWriter, draining, tpc,
                   tcall, tpool>>
    /\ UNCHANGED connOthers

\* test_connection: the pool is created and SELECT 1 fails (`?`): the
\* function returns before pool.close(), the local pool is dropped.
TestProbeFail(t) ==
    /\ tpc[t] = "idle"
    /\ \E q \in PoolIds :
          /\ pools[q] = "unused"
          /\ \A r \in PoolIds : r < q => pools[r] # "unused"
          /\ pools' = [pools EXCEPT ![q] = "dropped"]
          /\ response' = Response([op |-> "test_connection", id |-> 0],
                                  "Database", q)
    /\ UNCHANGED <<active_connections, lockWriter, draining, tpc, tcall,
                   tpool>>
    /\ UNCHANGED connOthers

\* test_connection: pool.close().await completes; Ok(())
TestClose(t) ==
    /\ tpc[t] = "test_close"
    /\ pools' = [pools EXCEPT ![tpool[t]] = "closed"]
    /\ Return(t, "Ok", tpool[t])
    /\ UNCHANGED <<active_connections, lockWriter, draining>>
    /\ UNCHANGED connOthers

NextConn ==
    \E t \in Tasks :
        \/ \E id \in ConnIds : ConnectCall(t, id)
        \/ ConnectCheck(t)
        \/ ConnectPool(t)
        \/ ConnectPoolFail(t)
        \/ ConnectInsert(t)
        \/ \E id \in ConnIds : DisconnectCall(t, id)
        \/ Disconnect(t)
        \/ DisconnectClose(t)
        \/ DisconnectAll(t)
        \/ DisconnectAllClose(t)
        \/ DisconnectAllDone(t)
        \/ \E id \in ConnIds : GetPoolCall(t, id)
        \/ GetPool(t)
        \/ \E id \in ConnIds : IsConnectedCall(t, id)
        \/ IsConnected(t)

\* The registry together with the users of pool handles and
\* test_connection.
NextPool ==
    \/ NextConn
    \/ UsePool
    \/ \E t \in Tasks :
          \/ TestConnection(t)
          \/ TestConnectionFail(t)
          \/ TestProbeFail(t)
          \/ TestClose(t)

(***************************************************************************)
(* CredentialStorage and the saved-connection commands                     *)
(*                                                                         *)
(* The commands are synchronous functions; each is one action.  Every      *)
(* keyring call may fail with an error other than NoEntry (locked or       *)
(* unreachable keyring, access denied to the item); the \E ... Fault       *)
(* variables of an action choose which calls fail.  A call that is not     *)
(* reached because an earlier `?` returned has no fault of its own.        *)
(***************************************************************************)
SavedIds == 1..NumSavedIds
Names == {"n1", "n2"}
Passwords == {"pw1", "pw2"}
None == "None"

\* ConnectionConfig (name stands for the fields serialized besides id)
Configs == [id : SavedIds, name : Names, password : {None, "pw1"}]

\* Mutant: the password field is serialized with the other fields.
SerializeConfig_WithPassword(c) == c

\* serde: `password` is #[serde(skip_serializing)]
SerializeConfig(c) == [id |-> c.id, name |-> c.name]

\* serde: a field missing from the JSON deserializes to None
DeserializeConfig(j) == [id |-> j.id, name |-> j.name, password |-> None]

\* serde_json::to_string(&configs)
ToJson(configs) == [k \in 1..Len(configs) |-> SerializeConfig(configs[k])]

\* serde_json::from_str(&json)
FromJson(json) == [k \in 1..Len(json) |-> DeserializeConfig(json[k])]

NoEntry == [present |-> FALSE, json |-> <<>>]

CredInit ==
    /\ keyring_connections = NoEntry
    /\ keyring_passwords = << >>
    /\ credCall = [op |-> "none", id |-> 0, name |-> None, password |-> None]
    /\ credRet = "none"

\* get_all_connection_configs: [ret, configs]
get_all_connection_configs(entry, fault) ==
    IF fault THEN [ret |-> "Keyring", configs |-> <<>>]
    ELSE IF entry.present THEN [ret |-> "Ok", configs |-> FromJson(entry.json)]
    ELSE [ret |-> "Ok", configs |-> <<>>]

\* Result::unwrap_or_default
unwrap_or_default(r) == IF r.ret = "Ok" THEN r.configs ELSE <<>>

\* Mutant: an existing config with the same id is not removed.
Retain_KeepsAll(configs, id) == configs

\* configs.retain(|c| c.id != id)
RECURSIVE Retain(_, _)
Retain(configs, id) ==
    IF configs = <<>> THEN <<>>
    ELSE IF Head(configs).id = id THEN Retain(Tail(configs), id)
    ELSE <<Head(configs)>> \o Retain(Tail(configs), id)

\* save_connection_config: [ret, entry]
save_connection_config(entry, config, readFault, writeFault) ==
    LET configs == unwrap_or_default(get_all_connection_configs(entry, readFault))
        pushed == Append(Retain(configs, config.id), config)
    IN IF writeFault THEN [ret |-> "Keyring", entry |-> entry]
       ELSE [ret |-> "Ok", entry |-> [present |-> TRUE, json |-> ToJson(pushed)]]

\* save_password: [ret, passwords]
save_password(pws, id, password, fault) ==
    IF fault THEN [ret |-> "Keyring", passwords |-> pws]
    ELSE [ret |-> "Ok",
          passwords |-> [k \in (DOMAIN pws) \cup {id} |->
                            IF k = id THEN password ELSE pws[k]]]

\* get_password: the stored password or a Keyring error
get_password(pws, id) == IF id \in DOMAIN pws THEN pws[id] ELSE "Keyring"

\* delete_password: `let _ = entry.delete_credential();` then Ok(()), or
\* the Keyring error of get_entry
delete_password(pws, id, entryFault, deleteFault) ==
    IF entryFault THEN [ret |-> "Keyring", passwords |-> pws]
    ELSE IF deleteFault THEN [ret |-> "Ok", passwords |-> pws]
    ELSE [ret |-> "Ok", passwords |-> [k \in (DOMAIN pws) \ {id} |-> pws[k]]]

\* delete_connection_config: [ret, entry, passwords]
delete_connection_config(entry, pws, id, readFault, writeFault, entryFault, deleteFault) ==
    LET configs == unwrap_or_default(get_all_connection_configs(entry, readFault))
        kept == Retain(configs, id)
        d == delete_password(pws, id, entryFault, deleteFault)
    IN IF writeFault
       THEN [ret |-> "Keyring", entry |-> entry, passwords |-> pws]
       ELSE [ret |-> d.ret, entry |-> [present |-> TRUE, json |-> ToJson(kept)],
             passwords |-> d.passwords]

\* The command that ran, with the arguments the properties below refer to.
CallOf(op, id, name, password) ==
    [op |-> op, id |-> id, name |-> name, password |-> password]

\* commands::save_connection(config, password)
SaveConnection ==
    \E config \in Configs, password \in Passwords,
       readFault \in BOOLEAN, writeFault \in BOOLEAN, pwFault \in BOOLEAN :
        LET r == save_connection_config(keyring_connections, config,
                                        readFault, writeFault)
            w == save_password(keyring_passwords, config.id, password, pwFault)
        IN /\ writeFault => ~pwFault
           /\ credCall' = CallOf("save_connection", config.id, config.name,
                                 password)
           /\ keyring_connections' = r.entry
           /\ IF r.ret = "Ok"
              THEN /\ keyring_passwords' = w.passwords
                   /\ credRet' = w.ret
              ELSE /\ keyring_passwords' = keyring_passwords
                   /\ credRet' = r.ret
           /\ UNCHANGED credOthers

\* commands::delete_saved_connection(connection_id)
DeleteSavedConnection ==
    \E id \in SavedIds, readFault \in BOOLEAN, writeFault \in BOOLEAN,
       entryFault \in BOOLEAN, deleteFault \in BOOLEAN :
        LET r == delete_connection_config(keyring_connections,
                     keyring_passwords, id, readFault, writeFault, entryFault,
                     deleteFault)
        IN /\ writeFault => ~entryFault
           /\ entryFault => ~deleteFault
           /\ credCall' = CallOf("delete_saved_connection", id, None, None)
           /\ keyring_connections' = r.entry
           /\ keyring_passwords' = r.passwords
           /\ credRet' = r.ret
           /\ UNCHANGED credOthers

\* commands::save_password(project_id, password)
SavePassword ==
    \E id \in SavedIds, password \in Passwords, fault \in BOOLEAN :
        LET w == save_password(keyring_passwords, id, password, fault)
        IN /\ credCall' = CallOf("save_password", 0, None, None)
           /\ keyring_passwords' = w.passwords
           /\ credRet' = w.ret
           /\ UNCHANGED keyring_connections
           /\ UNCHANGED credOthers

\* commands::delete_password(project_id)
DeletePassword ==
    \E id \in SavedIds, entryFault \in BOOLEAN, deleteFault \in BOOLEAN :
        LET d == delete_password(keyring_passwords, id, entryFault, deleteFault)
        IN /\ entryFault => ~deleteFault
           /\ credCall' = CallOf("delete_password", 0, None, None)
           /\ keyring_passwords' = d.passwords
           /\ credRet' = d.ret
           /\ UNCHANGED keyring_connections
           /\ UNCHANGED credOthers

\* commands::connect with save_connection = Some(true), after
\* connection_manager.connect returned Ok: the config carries
\* password = Some(request.password) and a new random id.
ConnectSave ==
    \E id \in SavedIds, name \in Names, password \in Passwords,
       readFault \in BOOLEAN, writeFault \in BOOLEAN, pwFault \in BOOLEAN :
        LET config == [id |-> id, name |-> name, password |-> password]
            r == save_connection_config(keyring_connections, config,
                                        readFault, writeFault)
            w == save_password(keyring_passwords, id, password, pwFault)
        IN /\ writeFault => ~pwFault
           /\ id \notin DOMAIN keyring_passwords
           /\ \A k \in 1..Len(keyring_connections.json) :
                 keyring_connections.json[k].id # id
           /\ credCall' = CallOf("connect", 0, None, None)
           /\ keyring_connections' = r.entry
           /\ IF r.ret = "Ok"
              THEN /\ keyring_passwords' = w.passwords
                   /\ credRet' = w.ret
              ELSE /\ keyring_passwords' = keyring_passwords
                   /\ credRet' = r.ret
           /\ UNCHANGED credOthers

\* import_connections: the loop over payload.projects; each project gets a
\* new random id and its password is saved unless it is empty; the first
\* failing save_password returns the error (`?`).
RECURSIVE ImportLoop(_, _, _, _)
ImportLoop(pws, projects, ids, faultAt) ==
    IF projects = <<>> THEN [ret |-> "Ok", passwords |-> pws]
    ELSE IF Head(projects) = ""
         THEN ImportLoop(pws, Tail(projects), Tail(ids), faultAt)
    ELSE LET w == save_password(pws, Head(ids), Head(projects), faultAt = 1)
         IN IF w.ret # "Ok" THEN w
            ELSE ImportLoop(w.passwords, Tail(projects), Tail(ids), faultAt - 1)

\* commands::import_connections(password, file_path), the file decrypts
ImportConnections ==
    LET taken == DOMAIN keyring_passwords \cup
                 {keyring_connections.json[j].id :
                      j \in 1..Len(keyring_connections.json)}
        fresh == SavedIds \ taken
    IN \E n \in 0..MaxImport :
       \E ids \in {f \in [1..n -> fresh] :
                      \A j, k \in 1..n : j # k => f[j] # f[k]} :
       \E projects \in [1..n -> Passwords \cup {""}], faultAt \in 0..n :
           LET r == ImportLoop(keyring_passwords, projects, ids, faultAt)
           IN /\ credCall' = CallOf("import_connections", 0, None, None)
              /\ keyring_passwords' = r.passwords
              /\ credRet' = r.ret
              /\ UNCHANGED keyring_connections
              /\ UNCHANGED credOthers

\* commands::import_connections: export::read_and_decrypt fails (`?`)
ImportConnectionsFail ==
    /\ credCall' = CallOf("import_connections", 0, None, None)
    /\ credRet' = "Export"
    /\ UNCHANGED <<keyring_connections, keyring_passwords>>
    /\ UNCHANGED credOthers

NextCred ==
    \/ SaveConnection
    \/ DeleteSavedConnection
    \/ SavePassword
    \/ DeletePassword
    \/ ConnectSave
    \/ ImportConnections
    \/ ImportConnectionsFail

(***************************************************************************)
(* CommitStore (db/commit_store.rs).  Strings are sequences of characters; *)
(* created_at is the tick of the wall clock, its text being the RFC 3339   *)
(* rendering, whose text order is the order of the ticks.                  *)
(***************************************************************************)
\* Option<String>::None for an id
NullId == <<>>

\* hex::encode of the SHA-256 digest of the bytes: distinct inputs give
\* distinct digests.
Sha256Hex(bytes) == <<"sha256(">> \o bytes \o <<")">>

RECURSIVE Update(_, _)
\* hasher.update(sql) for every sql of the slice, in order
Update(bytes, sql_statements) ==
    IF sql_statements = <<>> THEN bytes
    ELSE Update(bytes \o Head(sql_statements), Tail(sql_statements))

\* Mutant: the timestamp is left out of the hashed bytes.
generate_hash_NoTimestamp(parent_id, timestamp, sql_statements) ==
    Sha256Hex(Update(IF parent_id = NullId THEN <<"root">> ELSE parent_id,
                     sql_statements))

\* CommitStore::generate_hash
generate_hash(parent_id, timestamp, sql_statements) ==
    Sha256Hex(Update((IF parent_id = NullId THEN <<"root">> ELSE parent_id)
                         \o <<timestamp>>,
                     sql_statements))

\* chrono::Utc::now().to_rfc3339() at tick n
to_rfc3339(n) == ToString(n)

\* SaveCommitChange (type, schema_name and table_name are carried like data)
SaveCommitChange(sql, data) == [sql |-> sql, data |-> data]

\* The SaveCommitRequest values a caller sends.
Requests ==
    {[message |-> "m1", changes |-> <<SaveCommitChange(<<"x">>, "d1")>>],
     [message |-> "m2", changes |-> <<SaveCommitChange(<<"x">>, "d2")>>],
     [message |-> "m1", changes |-> <<SaveCommitChange(<<"x">>, "d1"),
                                      SaveCommitChange(<<"y">>, "d1")>>],
     [message |-> "m2", changes |-> <<SaveCommitChange(<<"x", "y">>, "d1")>>]}

CommitInit ==
    /\ commits = <<>>
    /\ pending = {}

\* SELECT id FROM commits ORDER BY created_at DESC LIMIT 1: the rows the
\* query may pick (any row of the newest created_at), as Option<String>.
get_latest_commit_id(rows) ==
    IF rows = <<>> THEN {NullId}
    ELSE {rows[k].id : k \in {j \in 1..Len(rows) :
              \A m \in 1..Len(rows) : rows[m].created_at <= rows[j].created_at}}

\* save_commit, first part: open the file and read the parent id.
SaveRead ==
    /\ \E p \in get_latest_commit_id(commits) : pending' = pending \cup {p}
    /\ pending' # pending
    /\ UNCHANGED commits
    /\ UNCHANGED commitOthers

\* save_commit, first part: query_row fails (the file is locked by another
\* writer) and `.ok()` turns the error into None.
SaveReadError ==
    /\ commits # <<>>
    /\ NullId \notin pending
    /\ pending' = pending \cup {NullId}
    /\ UNCHANGED commits
    /\ UNCHANGED commitOthers

\* The clock readings possible for the next save: the wall clock does not
\* run backwards and two readings may be equal.
Now(rows) ==
    LET last == IF rows = <<>> THEN 1 ELSE rows[Len(rows)].created_at
    IN {n \in {last, last + 1} : n <= MaxTime}

\* The Commit built by save_commit, with the commit_changes rows of the
\* first n changes (sort_order is the position, 0-based).
CommitRow(parent_id, now, request, n) ==
    [id |-> generate_hash(parent_id, to_rfc3339(now),
                [k \in 1..Len(request.changes) |-> request.changes[k].sql]),
     parent_id |-> parent_id,
     message |-> request.message,
     created_at |-> now,
     change_count |-> Len(request.changes),
     changes |-> [k \in 1..n |->
                     [sql |-> request.changes[k].sql,
                      data |-> request.changes[k].data,
                      sort_order |-> k - 1]]]

\* save_commit, second part: stamp now, hash, INSERT INTO commits, then
\* INSERT INTO commit_changes per change; n changes are inserted before an
\* insert fails (`?`), n = change_count when the call returns Ok(commit).
\* `more` tells whether another call in flight read the same parent.
SaveInsert ==
    \E parent_id \in pending, request \in Requests, now \in Now(commits) :
    \E n \in 0..Len(request.changes), more \in BOOLEAN :
        LET row == CommitRow(parent_id, now, request, n)
        IN /\ Len(commits) < MaxCommits
           /\ \A k \in 1..Len(commits) : commits[k].id # row.id
           /\ commits' = Append(commits, row)
           /\ pending' = IF more THEN pending ELSE pending \ {parent_id}
           /\ UNCHANGED commitOthers

\* save_commit, second part: INSERT INTO commits violates the primary key
\* (a commit with this id is stored); the call returns Err.
SaveInsertDuplicate ==
    \E parent_id \in pending, request \in Requests, now \in Now(commits) :
        LET row == CommitRow(parent_id, now, request, 0)
        IN /\ \E k \in 1..Len(commits) : commits[k].id = row.id
           /\ pending' = pending \ {parent_id}
           /\ UNCHANGED commits
           /\ UNCHANGED commitOthers

NextCommit ==
    \/ SaveRead
    \/ SaveReadError
    \/ SaveInsert
    \/ SaveInsertDuplicate

(***************************************************************************)
(* Export files (db/export.rs).  A string is a sequence of characters, a   *)
(* file a sequence of bytes followed by an optional AES-GCM body (the      *)
(* ciphertext with its 16-byte tag), kept as [key, nonce, plaintext].      *)
(***************************************************************************)
MAGIC == <<"T", "U", "S", "K">>
VERSION == "01"
SALT_LEN == 32
NONCE_LEN == 12
HEADER_LEN == 4 + 1 + SALT_LEN + NONCE_LEN

Quote == "\""
Backslash == "\\"

\* ExportedProject; an Option<String> is <<>> (None) or <<s>> (Some(s)).
\* The other fields are carried like name.
ExportedProjects ==
    [name : {<<"a">>, <<Quote>>},
     password : {<<>>, <<Quote>>, <<Backslash, "a">>},
     last_connected : {<<>>, <<(<<"a">>)>>}]

\* serde_json: a string is written between quotes with '"' and '\' escaped.
RECURSIVE JsonEscape(_)
JsonEscape(x) ==
    IF x = <<>> THEN <<>>
    ELSE (IF Head(x) \in {Quote, Backslash} THEN <<Backslash, Head(x)>>
          ELSE <<Head(x)>>) \o JsonEscape(Tail(x))

JsonString(x) == <<Quote>> \o JsonEscape(x) \o <<Quote>>

RECURSIVE JsonProjects(_)
JsonProjects(ps) ==
    IF ps = <<>> THEN <<>>
    ELSE <<"{">> \o JsonString(Head(ps).name)
                 \o JsonString(Head(ps).password)
                 \o (IF Head(ps).last_connected = <<>> THEN <<"null">>
                     ELSE JsonString(Head(ps).last_connected[1]))
                 \o <<"}">> \o JsonProjects(Tail(ps))

\* serde_json::to_vec(&payload)
to_vec(payload) ==
    <<"{", ToString(payload.version)>> \o JsonString(payload.exported_at)
        \o <<"[">> \o JsonProjects(payload.projects) \o <<"]", "}">>

\* Reads a JSON string whose opening quote has been consumed: [val, rest].
RECURSIVE ReadString(_, _)
ReadString(x, acc) ==
    IF Head(x) = Quote THEN [val |-> acc, rest |-> Tail(x)]
    ELSE IF Head(x) = Backslash
         THEN ReadString(Tail(Tail(x)), Append(acc, x[2]))
    ELSE ReadString(Tail(x), Append(acc, Head(x)))

\* Reads the projects up to the closing bracket.
RECURSIVE ReadProjects(_, _)
ReadProjects(x, acc) ==
    IF Head(x) = "]" THEN acc
    ELSE LET n == ReadString(Tail(Tail(x)), <<>>)
             p == ReadString(Tail(n.rest), <<>>)
             l == IF Head(p.rest) = "null"
                  THEN [val |-> <<>>, rest |-> Tail(p.rest)]
                  ELSE LET r == ReadString(Tail(p.rest), <<>>)
                       IN [val |-> <<r.val>>, rest |-> r.rest]
         IN ReadProjects(Tail(l.rest),
                Append(acc, [name |-> n.val, password |-> p.val,
                             last_connected |-> l.val]))

\* serde_json::from_slice(&plaintext) on the output of to_vec
from_slice(x) ==
    LET e == ReadString(Tail(Tail(Tail(x))), <<>>)
    IN [version |-> IF x[2] = "1" THEN 1 ELSE 0,
        exported_at |-> e.val,
        projects |-> ReadProjects(Tail(e.rest), <<>>)]

\* Mutant: the key does not depend on the password.
derive_key_SaltOnly(password, salt) == [password |-> "none", salt |-> salt]

\* Argon2id over password and salt
derive_key(password, salt) == [password |-> password, salt |-> salt]

NoBody == [none |-> TRUE]

\* data.len()
DataLen(f) ==
    Len(f.bytes) + IF f.body = NoBody THEN 0 ELSE Len(f.body.plaintext) + 16

\* encrypt_and_write up to `let mut file_data`: the bytes handed to fs::write.
FileData(projects, password, salt, nonce) ==
    LET payload == [version |-> 1, exported_at |-> <<"a">>,
                    projects |-> projects]
        salt_bytes == [k \in 1..SALT_LEN |-> salt]
        nonce_bytes == [k \in 1..NONCE_LEN |-> nonce]
    IN [bytes |-> MAGIC \o <<VERSION>> \o salt_bytes \o nonce_bytes,
        body |-> [key |-> derive_key(password, salt_bytes),
                  nonce |-> nonce_bytes, plaintext |-> to_vec(payload)]]

\* read_and_decrypt on content f: [ret, payload]
read_and_decrypt(f, password) ==
    IF DataLen(f) < HEADER_LEN
    THEN [ret |-> "Invalid file: too short", payload |-> <<>>]
    ELSE IF SubSeq(f.bytes, 1, 4) # MAGIC
    THEN [ret |-> "Not a valid Tusker export file", payload |-> <<>>]
    ELSE IF f.bytes[5] # VERSION
    THEN [ret |-> "Unsupported file version", payload |-> <<>>]
    ELSE IF \/ f.body = NoBody
            \/ Len(f.bytes) # HEADER_LEN
            \/ f.body.key #
                  derive_key(password, SubSeq(f.bytes, 5 + 1, 5 + SALT_LEN))
            \/ f.body.nonce # SubSeq(f.bytes, 5 + SALT_LEN + 1, HEADER_LEN)
    THEN [ret |-> "Incorrect password or corrupted file", payload |-> <<>>]
    ELSE [ret |-> "Ok", payload |-> <<from_slice(f.body.plaintext)>>]

\* The content of a file that holds exactly the given bytes.
Plain(bytes) == [bytes |-> bytes, body |-> NoBody]

\* The project lists a caller exports.
ProjectLists == UNION {[1..n -> ExportedProjects] : n \in 0..MaxProjects}

\* Files written by something else than encrypt_and_write: the contents of
\* the tests ("not a tusker file", "TUS") and files of HEADER_LEN - 1,
\* HEADER_LEN and HEADER_LEN + 1 bytes with and without the magic bytes.
OtherFiles ==
    {Plain(<<"n", "o", "t", " ", "a", " ", "t", "u", "s", "k", "e", "r", " ",
             "f", "i", "l", "e">>),
     Plain(<<"T", "U", "S">>)}
    \cup {Plain(m \o <<v>> \o [k \in 1..n |-> "z"]) :
            m \in {MAGIC, <<"T", "U", "S", "X">>}, v \in {VERSION, "02"},
            n \in {HEADER_LEN - 6, HEADER_LEN - 5, HEADER_LEN - 4}}

NoRead == [ret |-> "none", payload |-> <<>>, password |-> "none"]
NoArgs == [projects |-> <<>>, password |-> "none"]

ExportInit ==
    /\ file = Plain(<<>>)
    /\ wpc = "idle"
    /\ wdata = Plain(<<>>)
    /\ wargs = NoArgs
    /\ written = NoArgs
    /\ xret = NoRead

\* encrypt_and_write: file_data is built and std::fs::write opens the file,
\* which truncates it.
ExportTruncate ==
    /\ wpc = "idle"
    /\ \E projects \in ProjectLists, password \in Passwords,
          salt \in {"s1", "s2"} :
          /\ wdata' = FileData(projects, password, salt, "n1")
          /\ wargs' = [projects |-> projects, password |-> password]
    /\ file' = Plain(<<>>)
    /\ wpc' = "writing"
    /\ written' = NoArgs
    /\ xret' = NoRead
    /\ UNCHANGED exportOthers

\* std::fs::write: a write() call has stored the first n bytes.
ExportWritePart ==
    /\ wpc = "writing"
    /\ \E n \in {3, HEADER_LEN} :
          /\ Len(file.bytes) < n
          /\ file' = Plain(SubSeq(wdata.bytes, 1, n))
    /\ xret' = NoRead
    /\ UNCHANGED <<wpc, wdata, wargs, written>>
    /\ UNCHANGED exportOthers

\* std::fs::write: the last byte is stored; encrypt_and_write returns Ok.
ExportWriteDone ==
    /\ wpc = "writing"
    /\ file' = wdata
    /\ wpc' = "idle"
    /\ written' = wargs
    /\ xret' = NoRead
    /\ wdata' = Plain(<<>>)
    /\ wargs' = NoArgs
    /\ UNCHANGED exportOthers

\* std::fs::write stops part-way: a write() call fails (encrypt_and_write
\* returns Err) or the process dies.
ExportWriteStop ==
    /\ wpc = "writing"
    /\ wpc' = "idle"
    /\ wdata' = Plain(<<>>)
    /\ wargs' = NoArgs
    /\ UNCHANGED <<file, written, xret>>
    /\ UNCHANGED exportOthers

\* Another writer puts a file at file_path.
WriteOtherFile ==
    /\ wpc = "idle"
    /\ \E f \in OtherFiles : file' = f
    /\ file' # file
    /\ written' = NoArgs
    /\ xret' = NoRead
    /\ UNCHANGED <<wpc, wdata, wargs>>
    /\ UNCHANGED exportOthers

\* read_and_decrypt(file_path, password), at any time
ReadAndDecrypt ==
    /\ \E password \in Passwords :
          LET r == read_and_decrypt(file, password)
          IN xret' = [ret |-> r.ret, payload |-> r.payload,
                      password |-> password]
    /\ UNCHANGED <<file, wpc, wdata, wargs, written>>
    /\ UNCHANGED exportOthers

NextExport ==
    \/ ExportTruncate
    \/ ExportWritePart
    \/ ExportWriteDone
    \/ ExportWriteStop
    \/ WriteOtherFile
    \/ ReadAndDecrypt

(***************************************************************************)
(* Two concurrent calls of save_connection_config / delete_connection_config *)
(* (the synchronous commands run on one thread, connect with               *)
(* save_connection on another).  A call is split between its read of the   *)
(* "connections" entry and its set_password.                              *)
(***************************************************************************)
IndexCallers == {1, 2}

\* The configs the concurrent calls save.
IndexConfigs == {c \in Configs : c.name = "n1" /\ c.password = None}

\* Mutant: the new value is appended to the stored one.
set_password_Appends(entry, json) ==
    [present |-> TRUE, json |-> entry.json \o json]

\* keyring Entry::set_password(&json): the stored value is replaced.
set_password(entry, json) == [present |-> TRUE, json |-> json]

IdleCaller == [pc |-> "idle", json |-> <<>>, id |-> 0, stale |-> FALSE]
NoWrite == [written |-> FALSE, json |-> <<>>, over |-> <<>>, stale |-> FALSE]

IndexInit ==
    /\ idx = [t \in IndexCallers |-> IdleCaller]
    /\ lastWrite = NoWrite

\* save_connection_config up to serde_json::to_string: the value to store.
IndexSaveRead(t) ==
    /\ idx[t].pc = "idle"
    /\ \E config \in IndexConfigs, readFault \in BOOLEAN :
          idx' = [idx EXCEPT ![t] =
                     [pc |-> "save_write",
                      json |-> save_connection_config(keyring_connections,
                                   config, readFault, FALSE).entry.json,
                      id |-> config.id, stale |-> FALSE]]
    /\ UNCHANGED <<keyring_connections, keyring_passwords, lastWrite>>
    /\ UNCHANGED indexOthers

\* delete_connection_config up to serde_json::to_string
IndexDeleteRead(t) ==
    /\ idx[t].pc = "idle"
    /\ \E id \in SavedIds, readFault \in BOOLEAN :
          idx' = [idx EXCEPT ![t] =
                     [pc |-> "delete_write",
                      json |-> delete_connection_config(keyring_connections,
                                   keyring_passwords, id, readFault, FALSE,
                                   FALSE, FALSE).entry.json,
                      id |-> id, stale |-> FALSE]]
    /\ UNCHANGED <<keyring_connections, keyring_passwords, lastWrite>>
    /\ UNCHANGED indexOthers

\* entry.set_password(&json)? succeeds; delete_connection_config goes on
\* with delete_password.  The other caller's pending value is now stale.
IndexWrite(t) ==
    /\ idx[t].pc \in {"save_write", "delete_write"}
    /\ keyring_connections' = set_password(keyring_connections, idx[t].json)
    /\ lastWrite' = [written |-> TRUE, json |-> idx[t].json,
                     over |-> keyring_connections.json,
                     stale |-> idx[t].stale]
    /\ \E entryFault \in BOOLEAN, deleteFault \in BOOLEAN :
          keyring_passwords' =
              IF idx[t].pc = "delete_write"
              THEN delete_password(keyring_passwords, idx[t].id, entryFault,
                                   deleteFault).passwords
              ELSE keyring_passwords
    /\ idx' = [u \in IndexCallers |->
                  IF u = t THEN IdleCaller
                  ELSE IF idx[u].pc = "idle" THEN idx[u]
                  ELSE [idx[u] EXCEPT !.stale = TRUE]]
    /\ UNCHANGED indexOthers

\* get_connections_entry or set_password fails (`?`): nothing is stored.
IndexWriteFail(t) ==
    /\ idx[t].pc \in {"save_write", "delete_write"}
    /\ idx' = [idx EXCEPT ![t] = IdleCaller]
    /\ UNCHANGED <<keyring_connections, keyring_passwords, lastWrite>>
    /\ UNCHANGED indexOthers

NextIndex ==
    \E t \in IndexCallers :
        \/ IndexSaveRead(t)
        \/ IndexDeleteRead(t)
        \/ IndexWrite(t)
        \/ IndexWriteFail(t)

(***************************************************************************)
(* DataOperations (db/data.rs).  A string is a sequence of characters.     *)
(* A statement sent to the server is kept as a record of its rendered      *)
(* parts (identifiers, literals, LIMIT and OFFSET); the server reads each  *)
(* rendered part back under the SQL quoting rules before it evaluates the  *)
(* statement.  The table has two text columns; NULL is the cell NullCell.  *)
(* i64 arithmetic is done at a width of IntBits bits.                      *)
(***************************************************************************)
Apos == "'"

RECURSIVE Replace(_, _, _)
\* str::replace(ch, rep)
Replace(s, ch, rep) ==
    IF s = <<>> THEN <<>>
    ELSE (IF Head(s) = ch THEN rep ELSE <<Head(s)>>)
             \o Replace(Tail(s), ch, rep)

\* Mutant: the single quote is not doubled.
escape_sql_string_Raw(s) == s

\* escape_sql_string
escape_sql_string(s) == Replace(s, Apos, <<Apos, Apos>>)

\* quote_identifier (data.rs and schema.rs hold the same function)
quote_identifier(identifier) ==
    <<Quote>> \o Replace(identifier, Quote, <<Quote, Quote>>) \o <<Quote>>

\* serde_json::Value
JNull == [kind |-> "null", s |-> <<>>]
JBool(b) == [kind |-> "bool", s |-> IF b THEN <<"t">> ELSE <<"f">>]
JNumber(n) == [kind |-> "number", s |-> <<ToString(n)>>]
JString(s) == [kind |-> "string", s |-> s]

SqlNull == <<"N", "U", "L", "L">>

\* json_value_to_sql (arrays and objects are not among the inputs)
json_value_to_sql(value) ==
    CASE value.kind = "null" -> SqlNull
      [] value.kind = "bool" ->
            IF value.s = <<"t">> THEN <<"T", "R", "U", "E">>
            ELSE <<"F", "A", "L", "S", "E">>
      [] value.kind = "number" -> value.s
      [] OTHER -> <<Apos>> \o escape_sql_string(value.s) \o <<Apos>>

\* ---- the server's reading of the text ----
RECURSIVE ReadBody(_, _, _)
\* The body of a token delimited by q: a doubled q is one q, a single q
\* ends the token; [ok, value, rest], rest being the text after the token.
ReadBody(text, q, acc) ==
    IF text = <<>> THEN [ok |-> FALSE, value |-> acc, rest |-> <<>>]
    ELSE IF Head(text) # q THEN ReadBody(Tail(text), q, Append(acc, Head(text)))
    ELSE IF Len(text) >= 2 /\ text[2] = q
         THEN ReadBody(Tail(Tail(text)), q, Append(acc, q))
    ELSE [ok |-> TRUE, value |-> acc, rest |-> Tail(text)]

\* A delimited identifier (q = Quote) or a string constant (q = Apos) at
\* the start of text.
ReadQuoted(text, q) ==
    IF text # <<>> /\ Head(text) = q THEN ReadBody(Tail(text), q, <<>>)
    ELSE [ok |-> FALSE, value |-> <<>>, rest |-> text]

NullCell == <<"null">>

\* The value of a rendered literal compared with the text column: a string
\* constant, NULL, or a constant of another type (an error).
ReadValue(text) ==
    IF text = SqlNull THEN [ok |-> TRUE, value |-> NullCell, rest |-> <<>>]
    ELSE ReadQuoted(text, Apos)

\* The table public."t with columns c" and id: identifiers holding a quote.
ColumnName == <<"c", Quote>>
IdName == <<"i", "d">>
Columns == {ColumnName, IdName}
TableName == <<Quote, "t">>
SchemaName == <<"p">>

\* Text order of two cells (byte order of their characters).
CharRank(ch) == CASE ch = Quote -> 1 [] ch = Apos -> 2 [] ch = "x" -> 4
                  [] ch = "y" -> 5 [] OTHER -> 3

RECURSIVE TextLeq(_, _)
TextLeq(a, b) ==
    IF a = <<>> THEN TRUE
    ELSE IF b = <<>> THEN FALSE
    ELSE IF Head(a) = Head(b) THEN TextLeq(Tail(a), Tail(b))
    ELSE CharRank(Head(a)) < CharRank(Head(b))

\* A rendered predicate: [col, op, lits].  Its evaluation on a row:
\* "error", "true" or "false" (a NULL operand makes a comparison not true).
PgPredicate(row, p) ==
    LET col == ReadQuoted(p.col, Quote)
        lits == [k \in 1..Len(p.lits) |-> ReadValue(p.lits[k])]
        cell == row[col.value]
        known == \A k \in 1..Len(lits) :
                    lits[k].value # NullCell /\ cell # NullCell
        Truth(b) == IF b THEN "true" ELSE "false"
    IN IF \/ ~col.ok \/ col.rest # <<>> \/ col.value \notin Columns
          \/ \E k \in 1..Len(lits) : ~lits[k].ok \/ lits[k].rest # <<>>
       THEN "error"
       ELSE CASE p.op = "=" -> Truth(known /\ cell = lits[1].value)
              [] p.op = "IS NULL" -> Truth(cell = NullCell)
              [] p.op = "BETWEEN" ->
                    Truth(known /\ TextLeq(lits[1].value, cell)
                                /\ TextLeq(cell, lits[2].value))
              [] p.op = "IN" ->
                    IF lits = <<>> THEN "error"
                    ELSE Truth(cell # NullCell /\
                               \E k \in 1..Len(lits) : cell = lits[k].value)
              [] OTHER -> "error"

NullRow == [col \in Columns |-> NullCell]

\* WHERE p1 AND p2 ...; no predicate = no WHERE clause.  An error of a
\* predicate (syntax, unknown column) fails the statement.
PgWhereError(where) ==
    \E k \in 1..Len(where) : PgPredicate(NullRow, where[k]) = "error"

PgMatches(row, where) ==
    \A k \in 1..Len(where) : PgPredicate(row, where[k]) = "true"

\* The relation named in FROM / INTO / UPDATE exists.
PgRelation(schema, tbl) ==
    LET s == ReadQuoted(schema, Quote)
        t == ReadQuoted(tbl, Quote)
    IN /\ s.ok /\ s.rest = <<>> /\ s.value = SchemaName
       /\ t.ok /\ t.rest = <<>> /\ t.value = TableName

RECURSIVE PgSelect(_, _)
\* The rows of the table that satisfy the WHERE clause, in table order.
PgSelect(rows, where) ==
    IF rows = <<>> THEN <<>>
    ELSE (IF PgMatches(Head(rows), where) THEN <<Head(rows)>> ELSE <<>>)
             \o PgSelect(Tail(rows), where)

IntBits == 8
MaxInt == 2 ^ (IntBits - 1) - 1
MinInt == 0 - 2 ^ (IntBits - 1)

\* The value of a wrapping i64 operation whose exact result is x.
Wrap(x) == ((x - MinInt) % (2 ^ IntBits)) + MinInt

DEFAULT_PAGE_SIZE == 50

Min(a, b) == IF a <= b THEN a ELSE b

\* (total_count as f64 / page_size as f64).ceil() as i64: a division by
\* zero gives an infinity or NaN, which `as i64` turns into the largest
\* value or 0.
total_pages(total_count, page_size) ==
    IF page_size > 0 THEN (total_count + page_size - 1) \div page_size
    ELSE IF page_size < 0 THEN 0 - (total_count \div (0 - page_size))
    ELSE IF total_count = 0 THEN 0
    ELSE MaxInt

\* FilterCondition; an Option is the empty or the one-element sequence.
Filter(column, operator, value, value2, values) ==
    [column |-> column, operator |-> operator, value |-> value,
     value2 |-> value2, values |-> values]

\* format!("'{}'", escape_sql_string(v))
Literal(v) == <<Apos>> \o escape_sql_string(v) \o <<Apos>>

Predicate(col, op, lits) == [col |-> col, op |-> op, lits |-> lits]

\* Mutant: no list counts as empty.
is_empty_Never(vals) == FALSE

\* Vec::is_empty
is_empty(vals) == vals = <<>>

\* build_where_clause: the filter_map closure, an Option<String> (the
\* operators rendered with a value follow the Equals arm)
Condition(f) ==
    LET col == quote_identifier(f.column) IN
    CASE f.operator = "equals" ->
            IF f.value = <<>> THEN <<>>
            ELSE <<Predicate(col, "=", <<Literal(f.value[1])>>)>>
      [] f.operator = "is_null" -> <<Predicate(col, "IS NULL", <<>>)>>
      [] f.operator = "between" ->
            IF f.value = <<>> \/ f.value2 = <<>> THEN <<>>
            ELSE <<Predicate(col, "BETWEEN",
                             <<Literal(f.value[1]), Literal(f.value2[1])>>)>>
      [] OTHER ->
            IF f.values = <<>> THEN <<>>
            ELSE IF is_empty(f.values[1]) THEN <<>>
            ELSE <<Predicate(col, "IN",
                      [k \in 1..Len(f.values[1]) |-> Literal(f.values[1][k])])>>

RECURSIVE build_where_clause(_)
\* build_where_clause: the conditions that are kept, joined by AND; the
\* empty sequence is String::new()
build_where_clause(filters) ==
    IF filters = <<>> THEN <<>>
    ELSE Condition(Head(filters)) \o build_where_clause(Tail(filters))

\* A statement sent to the server.
Select(kind, where, limit, offset) ==
    [kind |-> kind, schema |-> quote_identifier(SchemaName),
     table |-> quote_identifier(TableName), where |-> where,
     limit |-> limit, offset |-> offset]

NoData == [ret |-> "none", rows |-> <<>>, total_count |-> 0, page |-> 0,
           page_size |-> 0, total_pages |-> 0, rows_affected |-> 0]

DataErr(kind) == [NoData EXCEPT !.ret = kind]

\* fetch_paginated: [sql, ret].  wraps: the multiplication wraps on
\* overflow (release profile) instead of panicking.
fetch_paginated(rows, page, page_size_opt, filters_opt, wraps) ==
    LET page_size == IF page_size_opt = <<>> THEN DEFAULT_PAGE_SIZE
                     ELSE page_size_opt[1]
        exact == (page - 1) * page_size
        offset == Wrap(exact)
        where_clause == IF filters_opt = <<>> THEN <<>>
                        ELSE build_where_clause(filters_opt[1])
        count_query == Select("count", where_clause, 0, 0)
        data_query == Select("select", where_clause, page_size, offset)
        matching == PgSelect(rows, where_clause)
        total_count == Len(matching)
    IN IF offset # exact /\ ~wraps
       THEN [sql |-> <<>>, ret |-> DataErr("panic")]
       ELSE IF ~PgRelation(count_query.schema, count_query.table)
                  \/ PgWhereError(where_clause)
       THEN [sql |-> <<count_query>>, ret |-> DataErr("Database")]
       ELSE IF page_size < 0 \/ offset < 0
       THEN [sql |-> <<count_query, data_query>>, ret |-> DataErr("Database")]
       ELSE [sql |-> <<count_query, data_query>>,
             ret |-> [ret |-> "Ok",
                      rows |-> SubSeq(matching, offset + 1,
                                      Min(offset + page_size, total_count)),
                      total_count |-> total_count, page |-> page,
                      page_size |-> page_size,
                      total_pages |-> total_pages(total_count, page_size),
                      rows_affected |-> 0]]

\* serde_json::Map<String, JsonValue>: the entries [col, val] in iteration
\* order, the keys being distinct.
Entry(col, val) == [col |-> col, val |-> val]

\* .map(|(col, val)| format!("{} = {}", quote_identifier(col),
\*                           json_value_to_sql(val)))
Assignments(map) ==
    [k \in 1..Len(map) |->
        Predicate(quote_identifier(map[k].col), "=",
                  <<json_value_to_sql(map[k].val)>>)]

\* The server reads "col" = literal pairs of SET or of INSERT as a row
\* fragment: [ok, row] with row a function on the columns named.
PgAssign(assignments) ==
    LET col(k) == ReadQuoted(assignments[k].col, Quote)
        lit(k) == ReadValue(assignments[k].lits[1])
        good(k) == /\ col(k).ok /\ col(k).rest = <<>>
                   /\ col(k).value \in Columns
                   /\ lit(k).ok /\ lit(k).rest = <<>>
        named == {col(k).value : k \in 1..Len(assignments)}
    IN IF \A k \in 1..Len(assignments) : good(k)
       THEN [ok |-> TRUE,
             row |-> [c \in named |->
                         lit(CHOOSE k \in 1..Len(assignments) :
                                 col(k).value = c).value]]
       ELSE [ok |-> FALSE, row |-> << >>]

Statement(kind, set, where) ==
    [kind |-> kind, schema |-> quote_identifier(SchemaName),
     table |-> quote_identifier(TableName), set |-> set, where |-> where]

\* Results of the three writing operations: [sql, rows, ret]
DataResult(sql, rows, ret) == [sql |-> sql, rows |-> rows, ret |-> ret]

Affected(n) == [NoData EXCEPT !.ret = "Ok", !.rows_affected = n]

\* insert_row
insert_row(rows, data) ==
    LET query == Statement("insert", Assignments(data), <<>>)
        a == PgAssign(query.set)
    IN IF data = <<>> THEN DataResult(<<>>, rows, DataErr("InvalidQuery"))
       ELSE IF ~PgRelation(query.schema, query.table) \/ ~a.ok
       THEN DataResult(<<query>>, rows, DataErr("Database"))
       ELSE DataResult(<<query>>,
                Append(rows, [c \in Columns |->
                                 IF c \in DOMAIN a.row THEN a.row[c]
                                 ELSE NullCell]),
                Affected(1))

\* update_row
update_row(rows, data, where) ==
    LET query == Statement("update", Assignments(data), Assignments(where))
        a == PgAssign(query.set)
        hit == {r \in 1..Len(rows) : PgMatches(rows[r], query.where)}
    IN IF data = <<>> THEN DataResult(<<>>, rows, DataErr("InvalidQuery"))
       ELSE IF where = <<>>
       THEN DataResult(<<>>, rows, DataErr("InvalidQuery"))
       ELSE IF \/ ~PgRelation(query.schema, query.table)
               \/ ~a.ok \/ PgWhereError(query.where)
       THEN DataResult(<<query>>, rows, DataErr("Database"))
       ELSE DataResult(<<query>>,
                [r \in 1..Len(rows) |->
                    IF r \in hit
                    THEN [c \in Columns |->
                             IF c \in DOMAIN a.row THEN a.row[c]
                             ELSE rows[r][c]]
                    ELSE rows[r]],
                Affected(Cardinality(hit)))

RECURSIVE Remaining(_, _)
\* The rows that a DELETE with this WHERE clause leaves.
Remaining(rows, where) ==
    IF rows = <<>> THEN <<>>
    ELSE (IF PgMatches(Head(rows), where) THEN <<>> ELSE <<Head(rows)>>)
             \o Remaining(Tail(rows), where)

\* Mutant: the WHERE map is not checked.
delete_row_Unchecked(rows, where) ==
    LET left == Remaining(rows, Assignments(where))
    IN DataResult(<<Statement("delete", <<>>, Assignments(where))>>, left,
                  Affected(Len(rows) - Len(left)))

\* delete_row
delete_row(rows, where) ==
    LET query == Statement("delete", <<>>, Assignments(where))
        left == Remaining(rows, query.where)
    IN IF where = <<>> THEN DataResult(<<>>, rows, DataErr("InvalidQuery"))
       ELSE IF \/ ~PgRelation(query.schema, query.table)
               \/ PgWhereError(query.where)
       THEN DataResult(<<query>>, rows, DataErr("Database"))
       ELSE DataResult(<<query>>, left, Affected(Len(rows) - Len(left)))

\* ---- requests ----
MaxFilters == 1

StrX == <<"x">>
StrQ == <<Apos>>

FilterConditions ==
    {Filter(ColumnName, "equals", v, <<>>, <<>>) : v \in {<<>>, <<StrQ>>}}
    \cup {Filter(ColumnName, "is_null", <<>>, <<>>, <<>>),
          Filter(<<"z">>, "is_null", <<>>, <<>>, <<>>)}
    \cup {Filter(IdName, "between", vw[1], vw[2], <<>>) :
              vw \in {<<(<<>>), <<StrX>>>>, <<(<<StrQ>>), <<>>>>,
                      <<(<<StrQ>>), <<StrX>>>>}}
    \cup {Filter(ColumnName, "in", <<>>, <<>>, vs) :
              vs \in {<<>>, <<(<<>>)>>, <<(<<StrX, StrQ>>)>>}}

\* Option<&Vec<FilterCondition>>
FilterOptions ==
    {<<>>} \cup {<<fs>> : fs \in UNION {[1..n -> FilterConditions] :
                                          n \in 0..MaxFilters}}

\* (page, page_size): the last pair overflows (page - 1) * page_size
PageArguments ==
    {<<1, <<>>>>, <<1, <<2>>>>, <<2, <<2>>>>, <<1, <<0>>>>, <<0, <<2>>>>,
     <<MaxInt \div 2 + 2, <<4>>>>}

DataMaps ==
    {<<>>, <<Entry(ColumnName, JString(StrX))>>,
     <<Entry(ColumnName, JString(StrQ))>>, <<Entry(ColumnName, JNull)>>,
     <<Entry(ColumnName, JString(StrQ)), Entry(IdName, JString(StrX))>>,
     <<Entry(<<Quote, Quote>>, JString(<<"x", Apos, Apos>>))>>}

WhereMaps ==
    {<<>>, <<Entry(ColumnName, JString(StrQ))>>, <<Entry(ColumnName, JNull)>>,
     <<Entry(IdName, JString(StrX))>>,
     <<Entry(ColumnName, JString(StrX)), Entry(IdName, JString(StrX))>>,
     <<Entry(<<"z", Quote>>, JString(<<Apos, Quote, Apos>>))>>}

DataCall(op, page, page_size, filters, data, where) ==
    [op |-> op, page |-> page, page_size |-> page_size, filters |-> filters,
     data |-> data, where |-> where]

NoDataCall == DataCall("none", 0, <<>>, <<>>, <<>>, <<>>)

DataInit ==
    /\ table = <<>>
    /\ dcall = NoDataCall
    /\ dsql = <<>>
    /\ dret = NoData

\* commands::fetch_table_data -> DataOperations::fetch_paginated
FetchPaginated ==
    /\ dcall.op = "none"
    /\ \E args \in PageArguments, filters \in FilterOptions, wraps \in BOOLEAN :
          LET r == fetch_paginated(table, args[1], args[2], filters, wraps)
          IN /\ dcall' = DataCall("fetch_paginated", args[1], args[2],
                                  filters, <<>>, <<>>)
             /\ dsql' = r.sql
             /\ dret' = r.ret
    /\ UNCHANGED table
    /\ UNCHANGED dataOthers

\* commands::insert_row -> DataOperations::insert_row
InsertRow ==
    /\ dcall.op = "none"
    /\ Len(table) < MaxRows
    /\ \E data \in DataMaps :
          LET r == insert_row(table, data)
          IN /\ dcall' = DataCall("insert_row", 0, <<>>, <<>>, data, <<>>)
             /\ dsql' = r.sql
             /\ table' = r.rows
             /\ dret' = r.ret
    /\ UNCHANGED dataOthers

\* commands::update_row -> DataOperations::update_row
UpdateRow ==
    /\ dcall.op = "none"
    /\ \E data \in DataMaps, where \in WhereMaps :
          LET r == update_row(table, data, where)
          IN /\ dcall' = DataCall("update_row", 0, <<>>, <<>>, data, where)
             /\ dsql' = r.sql
             /\ table' = r.rows
             /\ dret' = r.ret
    /\ UNCHANGED dataOthers

\* commands::delete_row -> DataOperations::delete_row
DeleteRow ==
    /\ dcall.op = "none"
    /\ \E where \in WhereMaps :
          LET r == delete_row(table, where)
          IN /\ dcall' = DataCall("delete_row", 0, <<>>, <<>>, <<>>, where)
             /\ dsql' = r.sql
             /\ table' = r.rows
             /\ dret' = r.ret
    /\ UNCHANGED dataOthers

\* The command's result has gone to the caller.
DataReturn ==
    /\ dcall.op # "none"
    /\ dcall' = NoDataCall
    /\ dsql' = <<>>
    /\ dret' = NoData
    /\ UNCHANGED table
    /\ UNCHANGED dataOthers

NextData ==
    \/ FetchPaginated
    \/ InsertRow
    \/ UpdateRow
    \/ DeleteRow
    \/ DataReturn

(***************************************************************************)
(* Properties of CredentialStorage                                         *)
(***************************************************************************)
\* What get_all_connection_configs() returns when the keyring answers.
SavedConfigs == get_all_connection_configs(keyring_connections, FALSE).configs

\* Positions of the saved configs with the given id.
EntriesOf(id) == {k \in 1..Len(SavedConfigs) : SavedConfigs[k].id = id}

\* C7: after save_connection(c, p) returned Ok the index holds exactly one
\* entry with c.id, it carries c's serialized fields, and get_password(c.id)
\* is p; the index never holds two entries with the same id.
C7_SaveConnectionUpserts ==
    /\ \A id \in SavedIds : Cardinality(EntriesOf(id)) <= 1
    /\ (credCall.op = "save_connection" /\ credRet = "Ok") =>
          /\ Cardinality(EntriesOf(credCall.id)) = 1
          /\ \A k \in EntriesOf(credCall.id) :
                SavedConfigs[k].name = credCall.name
          /\ get_password(keyring_passwords, credCall.id) = credCall.password

\* C7 witness: save_connection returned Ok next to another saved config.
C7_Witness ==
    /\ credCall.op = "save_connection"
    /\ credRet = "Ok"
    /\ Len(SavedConfigs) = 2
    /\ SavedConfigs[2].id = credCall.id

\* C8: a password entry exists for an id only if the index holds a config
\* with that id (a saved config without password being tolerated).
C8_PasswordIffConfig ==
    \A id \in DOMAIN keyring_passwords : EntriesOf(id) # {}

\* C9: after delete_connection_config(id) returned Ok the index holds no
\* config with that id and no password entry exists for that id.
C9_DeleteRemovesBoth ==
    (credCall.op = "delete_saved_connection" /\ credRet = "Ok") =>
        /\ EntriesOf(credCall.id) = {}
        /\ credCall.id \notin DOMAIN keyring_passwords


(***************************************************************************)
(* Properties of ConnectionManager                                         *)
(***************************************************************************)
\* Task t returns from position pc in this step.
Returns(t, pc) == tpc[t] = pc /\ tpc'[t] = "idle"

\* C4: at most one active connection per id under every interleaving: a
\* registered pool is never replaced by another pool, and a connect never
\* returns success for an id that another connect has registered.
C4_OneConnectionPerId ==
    [][/\ \A id \in DOMAIN active_connections :
             id \in DOMAIN active_connections' =>
                 active_connections'[id] = active_connections[id]
       /\ \A t \in Tasks :
             (Returns(t, "conn_insert") /\ response'.ret = "Ok") =>
                 tcall[t].id \notin DOMAIN active_connections]_vars

\* C5: a connect whose id is in the registry when it is checked returns
\* ConnectionAlreadyExists and leaves the registry and the pools unchanged.
C5_ConnectRejected ==
    [][\A t \in Tasks :
          (/\ tpc[t] = "conn_check"
           /\ tpc'[t] # "conn_check"
           /\ tcall[t].id \in DOMAIN active_connections) =>
              /\ tpc'[t] = "idle"
              /\ response' = Response(tcall[t], "ConnectionAlreadyExists", NoPool)
              /\ active_connections' = active_connections
              /\ pools' = pools]_vars

\* C5 witness: a connect for a registered id was rejected.
C5_Witness ==
    /\ response.op = "connect"
    /\ response.ret = "ConnectionAlreadyExists"
    /\ response.id \in DOMAIN active_connections

\* C6: disconnect of a registered id removes it, and the id is absent when
\* disconnect returns Ok; an absent id becomes registered only by a connect
\* for that id that returns Ok; while the id is absent get_pool yields
\* ConnectionNotFound and is_connected false; disconnect of an absent id
\* returns ConnectionNotFound and leaves the registry unchanged.
C6_DisconnectThenNotFound ==
    [][/\ \A t \in Tasks :
             (tpc[t] = "disc_remove" /\ tpc'[t] # "disc_remove") =>
                 IF tcall[t].id \in DOMAIN active_connections
                 THEN tcall[t].id \notin DOMAIN active_connections'
                 ELSE /\ response' = Response(tcall[t], "ConnectionNotFound", NoPool)
                      /\ active_connections' = active_connections
       /\ \A t \in Tasks :
             Returns(t, "disc_close") =>
                 /\ response' = Response(tcall[t], "Ok", NoPool)
                 /\ tcall[t].id \notin DOMAIN active_connections'
       /\ \A id \in ConnIds :
             (id \notin DOMAIN active_connections
                 /\ id \in DOMAIN active_connections') =>
                 \E t \in Tasks :
                     /\ tcall[t] = [op |-> "connect", id |-> id]
                     /\ Returns(t, "conn_insert")
                     /\ response'.ret = "Ok"
       /\ \A t \in Tasks :
             (Returns(t, "get_pool")
                 /\ tcall[t].id \notin DOMAIN active_connections) =>
                 response' = Response(tcall[t], "ConnectionNotFound", NoPool)
       /\ \A t \in Tasks :
             (Returns(t, "is_connected")
                 /\ tcall[t].id \notin DOMAIN active_connections) =>
                 response' = Response(tcall[t], "false", NoPool)]_vars

\* C6 witness: get_pool(id) returned ConnectionNotFound for an id that is
\* not registered after a disconnect closed a pool.
C6_Witness ==
    /\ response.op = "get_pool"
    /\ response.ret = "ConnectionNotFound"
    /\ response.id \notin DOMAIN active_connections
    /\ \E q \in PoolIds : pools[q] = "closed"

(***************************************************************************)
(* Properties of execute_migration                                         *)
(***************************************************************************)
\* The non-empty statements of the request, trimmed, in input order.
RECURSIVE NonEmptyTrimmed(_)
NonEmptyTrimmed(stmts) ==
    IF stmts = <<>> THEN <<>>
    ELSE IF Trim(Head(stmts)) = <<>> THEN NonEmptyTrimmed(Tail(stmts))
    ELSE <<Trim(Head(stmts))>> \o NonEmptyTrimmed(Tail(stmts))

UserStmts == NonEmptyTrimmed(statements)

SetupSqlSet == {setup_sqls[k] : k \in 1..Len(setup_sqls)}

\* The call returned a MigrationResult that does not come from a failed
\* SET LOCAL statement.
ReturnedAfterSetup ==
    /\ mpc = "done"
    /\ mresult.ret = "Ok"
    /\ \A k \in 1..Len(mresult.statements) :
          mresult.statements[k].sql \notin SetupSqlSet

\* Some user statement of the batch is reported as failed.
SomeStatementFailed ==
    \E k \in 1..Len(mresult.statements) :
        /\ k <= Len(UserStmts)
        /\ ~mresult.statements[k].ok

\* Catalog state after running every statement of ss on s, a failing
\* statement leaving the state as it is.
RECURSIVE RunAll(_, _)
RunAll(s, ss) ==
    IF ss = <<>> THEN s
    ELSE RunAll(IF CanExec(Head(ss)[1], s) THEN Effect(Head(ss)[1], s) ELSE s,
                Tail(ss))

\* Does statement k of ss succeed when the statements before it have run?
ExpectedOk(ss, k) == CanExec(ss[k][1], RunAll(InitDb, SubSeq(ss, 1, k - 1)))

\* C1: in apply mode, when a statement fails the report is the successful
\* statements before it followed by the failing one, the result has
\* ok=false and committed=false, and the database is as before the call.
C1_ApplyFailureLeavesDbUnchanged ==
    (ReturnedAfterSetup /\ ~mresult.dry_run /\ SomeStatementFailed) =>
        LET r == mresult.statements
            n == Len(r)
        IN /\ n <= Len(UserStmts)
           /\ \A k \in 1..n : r[k].sql = UserStmts[k] /\ (r[k].ok <=> k < n)
           /\ ~mresult.ok
           /\ ~mresult.committed
           /\ pg.db = InitDb

\* C2: in dry-run mode the database after the call equals the database
\* before the call and the result has committed=false.
C2_DryRunLeavesDbUnchanged ==
    (mpc = "done" /\ dry_run) =>
        /\ pg.db = InitDb
        /\ ~mresult.committed

C10_DryRunReport ==
    (ReturnedAfterSetup /\ mresult.dry_run) =>
        LET r == mresult.statements IN
        /\ Len(r) = Len(UserStmts)
        /\ \A k \in 1..Len(r) :
              r[k] = StatementResult(UserStmts[k], ExpectedOk(UserStmts, k))
        /\ mresult.ok = (\A k \in 1..Len(r) : r[k].ok)

\* C10 witness: rename succeeded, a later statement failed, and the ALTER
\* on the new name after the failure succeeded.
C10_Witness ==
    /\ mpc = "done"
    /\ mresult.ret = "Ok"
    /\ mresult.dry_run
    /\ Len(mresult.statements) = 3
    /\ mresult.statements[1] = StatementResult(<<RenameAB>>, TRUE)
    /\ ~mresult.statements[2].ok
    /\ mresult.statements[3] = StatementResult(<<AlterB>>, TRUE)

\* The call returned before the loop over the user statements was entered.
ReturnedDuringSetup ==
    /\ mpc = "done"
    /\ mresult.ret = "Ok"
    /\ i = 0

\* C11: when a SET LOCAL statement fails, the result has ok=false,
\* committed=false and exactly one entry, the failing SET LOCAL statement;
\* no user statement was executed and the database is as before the call.
C11_SetupFailure ==
    ReturnedDuringSetup =>
        /\ ~mresult.ok
        /\ ~mresult.committed
        /\ mresult.dry_run = dry_run
        /\ mresult.statements =
               <<StatementResult(setup_sqls[setupIdx], FALSE)>>
        /\ results = <<>>
        /\ pg.db = InitDb
        /\ ~pg.inTx

\* C11 witness: the third SET LOCAL failed in an apply run whose batch
\* holds a statement that would have changed the database.
C11_Witness ==
    /\ ReturnedDuringSetup
    /\ setupIdx = 3
    /\ ~dry_run
    /\ UserStmts # <<>>
    /\ UserStmts[1] = <<RenameAB>>

\* C12: when the caller cancels execute_migration at a suspension point,
\* the transaction is rolled back and the database is as before the call.
C12_CancelLeavesDbUnchanged ==
    (mpc = "done" /\ mresult.ret = "Cancelled") =>
        /\ ~pg.inTx
        /\ pg.db = InitDb

(***************************************************************************)
(* Properties of pool handles and test_connection                          *)
(***************************************************************************)
\* C18: a query on a handle that get_pool returned does not fail because
\* the registry evicted the entry meanwhile.
C18_HandleStaysValid ==
    response.op = "query" => response.ret = "Ok"

\* C19: the pool that test_connection created is closed when it returns,
\* whether the probe succeeded or failed.
C19_TestPoolClosed ==
    (response.op = "test_connection" /\ response.pool # NoPool) =>
        pools[response.pool] = "closed"

(***************************************************************************)
(* Properties of concurrent index writes                                   *)
(***************************************************************************)
\* C20: with two concurrent index writers, the stored index is the value
\* given to the last set_password, and it is a config list without
\* duplicate ids.
C20_LastWriterWins ==
    /\ lastWrite.written =>
           /\ keyring_connections.present
           /\ keyring_connections.json = lastWrite.json
    /\ \A j, k \in 1..Len(SavedConfigs) :
           j # k => SavedConfigs[j].id # SavedConfigs[k].id

\* C20 witness: both calls have returned; the last write stored a value
\* computed before the other call saved id 1, and replaced that index by
\* one that holds id 2 only.
C20_Witness ==
    /\ \A t \in IndexCallers : idx[t].pc = "idle"
    /\ lastWrite.written
    /\ lastWrite.stale
    /\ Len(lastWrite.over) = 1
    /\ FromJson(lastWrite.over)[1].id = 1
    /\ Len(SavedConfigs) = 1
    /\ SavedConfigs[1].id = 2

(***************************************************************************)
(* Properties of CommitStore                                               *)
(***************************************************************************)
\* Ids of the rows among the first n that are newest by created_at.
NewestAmong(n) ==
    {commits[j].id : j \in {j \in 1..n :
        \A m \in 1..n : commits[m].created_at <= commits[j].created_at}}

\* C13: the stored commits form one linear chain: the first has no
\* parent, every later one has as parent a commit that was newest by
\* created_at when it was saved, and no two commits share a parent.
C13_LinearChain ==
    /\ commits # <<>> => commits[1].parent_id = NullId
    /\ \A k \in 2..Len(commits) : commits[k].parent_id \in NewestAmong(k - 1)
    /\ \A j, k \in 1..Len(commits) :
          j # k => commits[j].parent_id # commits[k].parent_id

\* The bytes of all sql texts of the rows, in sort_order.
RECURSIVE SqlBytes(_)
SqlBytes(rows) ==
    IF rows = <<>> THEN <<>> ELSE rows[1].sql \o SqlBytes(Tail(rows))

\* C14: the id of a commit returned by save_commit (all its changes are
\* stored) is the hex SHA-256 of parent id or "root", then created_at, then
\* the sql texts in input order; commits that agree on these three have
\* the same id whatever their message and change data.
C14_IdDeterministic ==
    \A k \in 1..Len(commits) :
        LET c == commits[k] IN
        Len(c.changes) = c.change_count =>
            /\ c.id = <<"sha256(">>
                        \o (IF c.parent_id = NullId THEN <<"root">>
                            ELSE c.parent_id)
                        \o <<ToString(c.created_at)>>
                        \o SqlBytes(c.changes) \o <<")">>
            /\ \A r \in Requests, n \in 0..MaxTime :
                  (/\ n = c.created_at
                   /\ SqlBytes(r.changes) = SqlBytes(c.changes))
                  => CommitRow(c.parent_id, n, r, 0).id = c.id

\* C14 witness: two commits returned by save_commit are stored, the second
\* on top of the first, with the same sql text and timestamp tick but
\* another message and other change data.
C14_Witness ==
    /\ Len(commits) = 2
    /\ \A k \in 1..2 : Len(commits[k].changes) = commits[k].change_count
    /\ commits[2].parent_id = commits[1].id
    /\ commits[1].created_at = commits[2].created_at
    /\ SqlBytes(commits[1].changes) = SqlBytes(commits[2].changes)
    /\ commits[1].changes # <<>>
    /\ commits[1].message # commits[2].message

(***************************************************************************)
(* Properties of the export file                                           *)
(***************************************************************************)
\* C15: reading the file written by encrypt_and_write(x, p, f) with
\* password p gives version 1 and projects x; reading it with another
\* password fails with "Incorrect password or corrupted file".
C15_ExportRoundTrip ==
    (written # NoArgs /\ xret # NoRead) =>
        IF xret.password = written.password
        THEN /\ xret.ret = "Ok"
             /\ xret.payload[1].version = 1
             /\ xret.payload[1].projects = written.projects
        ELSE xret.ret = "Incorrect password or corrupted file"

\* C15 witness: a project whose password is a quote character and whose
\* last_connected is set came back from the file.
C15_Witness ==
    /\ written # NoArgs
    /\ xret.ret = "Ok"
    /\ Len(written.projects) = 1
    /\ written.projects[1].password = <<Quote>>
    /\ written.projects[1].last_connected # <<>>

\* The bytes of the file agree with the magic bytes as far as both go.
BeginsLikeMagic(f) ==
    \A k \in 1..4 : k <= Len(f.bytes) => f.bytes[k] = MAGIC[k]

\* C16: reading a file whose first bytes differ from the magic bytes fails
\* with "Not a valid Tusker export file" whatever its length, and reading
\* a truncated file (fewer than HEADER_LEN bytes, none of them differing
\* from the magic bytes) fails with "too short".
C16_InvalidFileErrors ==
    xret # NoRead =>
        /\ ~BeginsLikeMagic(file)
              => xret.ret = "Not a valid Tusker export file"
        /\ (DataLen(file) < HEADER_LEN /\ BeginsLikeMagic(file))
              => xret.ret = "Invalid file: too short"

\* C17: while encrypt_and_write writes, every change of the file at
\* file_path puts the complete new file_data there.
C17_AtomicWrite ==
    [][/\ wpc = "writing" => (file' = file \/ file' = wdata)
       /\ (wpc = "idle" /\ wpc' = "writing") =>
              (file' = file \/ file' = wdata')]_vars

(***************************************************************************)
(* Properties of the serialized ConnectionConfig                           *)
(***************************************************************************)
\* C21: no element of the JSON stored in the "connections" entry has a
\* password field, and every config read back from it (what
\* get_saved_connections returns) has password None; this holds when the
\* saved config carried Some(password).
C21_PasswordNeverSerialized ==
    /\ \A k \in 1..Len(keyring_connections.json) :
           "password" \notin DOMAIN keyring_connections.json[k]
    /\ \A k \in 1..Len(SavedConfigs) : SavedConfigs[k].password = None

\* C21 witness: connect with save_connection = true returned Ok; its
\* config, carrying Some(password), is in the index and the password is in
\* a per-id entry.
C21_Witness ==
    /\ credCall.op = "connect"
    /\ credRet = "Ok"
    /\ Len(keyring_connections.json) >= 1
    /\ DOMAIN keyring_passwords # {}

(***************************************************************************)
(* Properties of the pools that leave the registry                         *)
(***************************************************************************)
Registered(m, q) == \E id \in DOMAIN m : m[id] = q

\* C24: a pool stops being registered only in a step of a disconnect or a
\* disconnect_all that goes on to close it, and when that call returns
\* the pool is closed.
C24_RemovedPoolsClosed ==
    [][\A q \in PoolIds :
          /\ (Registered(active_connections, q)
                 /\ ~Registered(active_connections', q))
             => \/ \E t \in Tasks : tpc'[t] = "disc_close" /\ tpool'[t] = q
                \/ q \in draining'
          /\ (\E t \in Tasks : tpc[t] = "disc_close" /\ tpool[t] = q
                                  /\ tpc'[t] = "idle")
             => pools'[q] = "closed"
          /\ (q \in draining /\ q \notin draining') => pools'[q] = "closed"
      ]_vars

(***************************************************************************)
(* Properties of the returned MigrationResult                              *)
(***************************************************************************)
\* C25: in every MigrationResult returned, ok is the conjunction of the
\* entries' ok, committed implies ok and apply mode, and an entry carries
\* an error exactly when it is not ok; Err is returned only by
\* pool.begin(), before any statement was sent.
C25_ResultConsistent ==
    /\ (mpc = "done" /\ mresult.ret = "Ok") =>
           LET r == mresult.statements IN
           /\ mresult.ok = (\A k \in 1..Len(r) : r[k].ok)
           /\ mresult.committed => (mresult.ok /\ ~mresult.dry_run)
           /\ \A k \in 1..Len(r) : (r[k].error # "None") = ~r[k].ok
    /\ (mpc = "done" /\ mresult.ret = "Err") =>
           /\ setupIdx = 0
           /\ i = 0
           /\ results = <<>>

\* C25 witness: an apply run returned Ok(result) whose second user
\* statement failed after the first had succeeded.
C25_Witness ==
    /\ mpc = "done"
    /\ mresult.ret = "Ok"
    /\ ~mresult.dry_run
    /\ ~mresult.ok
    /\ ~mresult.committed
    /\ Len(mresult.statements) = 2
    /\ mresult.statements[1].ok
    /\ mresult.statements[2].sql = <<DivZero>>
    /\ mresult.statements[2].error = "Some"

(***************************************************************************)
(* Properties of DataOperations                                            *)
(***************************************************************************)
\* C22: a page returned by fetch_paginated(page p, page_size s) has at
\* most s rows, total_count counts the rows matching the WHERE clause of
\* the data query, total_pages is the ceiling of total_count / s, and the
\* rows are the matching rows after the first (p-1)*s.
C22_Pagination ==
    (dcall.op = "fetch_paginated" /\ dret.ret = "Ok") =>
        LET s == dret.page_size
            p == dret.page
            matching == PgSelect(table, dsql[2].where)
        IN /\ Len(dret.rows) <= s
           /\ dsql[1].where = dsql[2].where
           /\ dret.total_count = Len(matching)
           /\ s > 0 => /\ dret.total_pages * s >= dret.total_count
                       /\ (dret.total_pages - 1) * s < dret.total_count
           /\ dret.rows = SubSeq(matching, (p - 1) * s + 1,
                                 Min((p - 1) * s + s, Len(matching)))

\* The row satisfies every (column, value) pair of the map as an equality.
EqualsAll(row, map) ==
    \A k \in 1..Len(map) :
        /\ map[k].val.kind = "string"
        /\ map[k].col \in Columns
        /\ row[map[k].col] = map[k].val.s

\* C23: update_row and delete_row with an empty WHERE map, and insert_row
\* and update_row with an empty data map, return InvalidQuery, send no
\* statement and leave the table as it is; an update or delete that
\* succeeds affects exactly the rows that satisfy every pair of its WHERE
\* map.
C23_WhereRequired ==
    [][dcall.op = "none" =>
          /\ (dcall'.op \in {"update_row", "delete_row"} /\ dcall'.where = <<>>)
                => (dret'.ret = "InvalidQuery" /\ dsql' = <<>> /\ table' = table)
          /\ (dcall'.op \in {"insert_row", "update_row"} /\ dcall'.data = <<>>)
                => (dret'.ret = "InvalidQuery" /\ dsql' = <<>> /\ table' = table)
          /\ (dcall'.op \in {"update_row", "delete_row"} /\ dret'.ret = "Ok")
                => LET hit == {r \in 1..Len(table) :
                                  EqualsAll(table[r], dcall'.where)}
                   IN /\ dcall'.where # <<>>
                      /\ dret'.rows_affected = Cardinality(hit)
                      /\ dcall'.op = "update_row" =>
                            /\ Len(table') = Len(table)
                            /\ \A r \in 1..Len(table) :
                                  r \notin hit => table'[r] = table[r]
                      /\ dcall'.op = "delete_row" =>
                            /\ Len(table') = Len(table) - Cardinality(hit)
                            /\ \A r \in 1..Len(table') :
                                  ~EqualsAll(table'[r], dcall'.where)
      ]_vars

\* C23 witness: delete_row with an empty WHERE map on a table that has
\* rows returned InvalidQuery.
C23_Witness ==
    /\ dcall.op = "delete_row"
    /\ dcall.where = <<>>
    /\ dret.ret = "InvalidQuery"
    /\ table # <<>>

\* The condition has the fields its operator needs.
HasRequired(f) ==
    CASE f.operator = "equals" -> f.value # <<>>
      [] f.operator = "is_null" -> TRUE
      [] f.operator = "between" -> f.value # <<>> /\ f.value2 # <<>>
      [] OTHER -> f.values # <<>> /\ f.values[1] # <<>>

RECURSIVE KeptFilters(_)
KeptFilters(filters) ==
    IF filters = <<>> THEN <<>>
    ELSE (IF HasRequired(Head(filters)) THEN <<Head(filters)>> ELSE <<>>)
             \o KeptFilters(Tail(filters))

\* What the condition says of a row.
Holds(row, f) ==
    LET cell == row[f.column] IN
    CASE f.operator = "equals" -> cell = f.value[1]
      [] f.operator = "is_null" -> cell = NullCell
      [] f.operator = "between" ->
            /\ cell # NullCell
            /\ TextLeq(f.value[1], cell)
            /\ TextLeq(cell, f.value2[1])
      [] OTHER -> \E k \in 1..Len(f.values[1]) : cell = f.values[1][k]

Tails == {<<>>, <<" ">>, <<".">>}

RECURSIVE Flatten(_)
Flatten(seqs) ==
    IF seqs = <<>> THEN <<>> ELSE Head(seqs) \o Flatten(Tail(seqs))

Range(f) == {f[k] : k \in DOMAIN f}

\* The identifiers and the string values of a request.
IdentifiersOf(call) ==
    {SchemaName, TableName}
    \cup {e.col : e \in Range(call.data) \cup Range(call.where)}
    \cup {f.column : f \in Range(Flatten(call.filters))}

StringsOf(call) ==
    {e.val.s : e \in {d \in Range(call.data) \cup Range(call.where) :
                          d.val.kind = "string"}}
    \cup UNION {Range(f.value) \cup Range(f.value2) \cup Range(Flatten(f.values)) :
                   f \in Range(Flatten(call.filters))}

\* C27: every identifier and string value of a request, rendered by
\* quote_identifier, escape_sql_string or json_value_to_sql and followed
\* by any text, is read back as one token whose value is the input.
C27_QuotingRoundTrip ==
    dcall.op # "none" =>
        \A tail \in Tails :
            /\ \A s \in IdentifiersOf(dcall) :
                  ReadQuoted(quote_identifier(s) \o tail, Quote)
                      = [ok |-> TRUE, value |-> s, rest |-> tail]
            /\ \A s \in StringsOf(dcall) :
                  /\ ReadQuoted(Literal(s) \o tail, Apos)
                        = [ok |-> TRUE, value |-> s, rest |-> tail]
                  /\ ReadQuoted(json_value_to_sql(JString(s)) \o tail, Apos)
                        = [ok |-> TRUE, value |-> s, rest |-> tail]

\* C27 witness: an update whose column name holds a double quote and
\* whose value is a single quote changed a row to that value.
C27_Witness ==
    /\ dcall.op = "update_row"
    /\ dcall.data = <<Entry(ColumnName, JString(StrQ))>>
    /\ Len(dcall.where) = 2
    /\ dret.ret = "Ok"
    /\ dret.rows_affected >= 1
    /\ \E r \in 1..Len(table) : table[r][ColumnName] = StrQ

(***************************************************************************)
(* Properties of the stored changes of a commit                            *)
(***************************************************************************)
\* C28: every stored commit has exactly change_count rows in
\* commit_changes, with sort_order 0 .. change_count - 1 in that order.
C28_ChangesComplete ==
    \A n \in 1..Len(commits) :
        /\ Len(commits[n].changes) = commits[n].change_count
        /\ \A k \in 1..Len(commits[n].changes) :
              commits[n].changes[k].sort_order = k - 1

(***************************************************************************)
(* Properties of the index entries a save or delete does not target        *)
(***************************************************************************)
\* C29: save_connection_config(c) and delete_connection_config(id) keep
\* every index entry whose id is not the target id, unchanged.
C29_OtherEntriesKept ==
    [][credCall'.op \in {"save_connection", "delete_saved_connection"} =>
          \A k \in 1..Len(keyring_connections.json) :
              keyring_connections.json[k].id # credCall'.id =>
                  \E j \in 1..Len(keyring_connections'.json) :
                      keyring_connections'.json[j] = keyring_connections.json[k]
      ]_vars

(***************************************************************************)
(* The registry lock while operations run on pool handles                  *)
(* (db/connection.rs, commands.rs)                                         *)
(***************************************************************************)

\* Operations that may hold a connection of one pool at the same time.
MaxInFlight == 1

WorkInit == inflight = [q \in PoolIds |-> 0]

\* close() has been called on pool q: by disconnect, or by the iteration of
\* disconnect_all's loop that is running.
CloseCalled(q) ==
    \/ PoolClosed(q)
    \/ \E t \in Tasks : tpc[t] = "disc_all" /\ tpool[t] = q

\* Mutant: the operation takes the registry's read guard before it returns.
HandleLock_Registry == CanRead

\* What an operation that already holds a pool handle needs from the
\* registry lock to finish: nothing, get_pool's guard is released when
\* get_pool returns.
HandleLock == TRUE

\* A command that received a handle of pool q from get_pool starts an
\* operation on it (execute_migration(&pool, ..)): a connection is checked
\* out.  Pool::acquire fails once close() has been called.
BeginWork(q) ==
    /\ pools[q] = "open"
    /\ Registered(active_connections, q) \/ q \in draining
    /\ ~CloseCalled(q)
    /\ inflight[q] < MaxInFlight
    /\ inflight' = [inflight EXCEPT ![q] = @ + 1]
    /\ UNCHANGED workOthers

\* The operation terminates and its connection goes back to the pool.
EndWork(q) ==
    /\ inflight[q] > 0
    /\ HandleLock
    /\ inflight' = [inflight EXCEPT ![q] = @ - 1]
    /\ UNCHANGED workOthers

\* disconnect: pool.close().await resolves when every connection that was
\* checked out has come back.
DisconnectCloseIdle(t) ==
    /\ tpc[t] = "disc_close"
    /\ inflight[tpool[t]] = 0
    /\ DisconnectClose(t)

\* disconnect_all: the loop takes the next pool out of the drain and calls
\* close() on it.
DisconnectAllNext(t) ==
    /\ tpc[t] = "disc_all"
    /\ tpool[t] \notin draining
    /\ \E q \in draining : tpool' = [tpool EXCEPT ![t] = q]
    /\ UNCHANGED <<active_connections, pools, lockWriter, draining, tpc, tcall,
                   response>>
    /\ UNCHANGED connOthers

\* disconnect_all: the close().await of the running iteration resolves;
\* the loop variable is not reset in the model, it is stale once its pool
\* has left the drain.
DisconnectAllCloseIdle(t) ==
    /\ tpc[t] = "disc_all"
    /\ tpool[t] \in draining
    /\ inflight[tpool[t]] = 0
    /\ pools' = [pools EXCEPT ![tpool[t]] = "closed"]
    /\ draining' = draining \ {tpool[t]}
    /\ UNCHANGED <<active_connections, lockWriter, tpc, tcall, tpool, response>>
    /\ UNCHANGED connOthers

\* A task calls list_active_connections().
ListActiveCall(t) ==
    /\ Call(t, "list_active_connections", 0, "list_active")
    /\ UNCHANGED connOthers

\* list_active_connections: the values of the map under the read guard.
\* The returned Vec (one ConnectionInfo per registered id) is not kept:
\* the response records that the call returned.
ListActive(t) ==
    /\ tpc[t] = "list_active"
    /\ CanRead
    /\ Return(t, "Ok", NoPool)
    /\ UNCHANGED <<active_connections, pools, lockWriter, draining>>
    /\ UNCHANGED connOthers

\* The steps of task t that wait for the registry lock.
LockStep(t) ==
    \/ ConnectCheck(t)
    \/ ConnectInsert(t)
    \/ Disconnect(t)
    \/ GetPool(t)
    \/ IsConnected(t)
    \/ ListActive(t)

\* The steps of task t that wait for no lock.
LocalStep(t) ==
    \/ ConnectPool(t)
    \/ ConnectPoolFail(t)
    \/ DisconnectCloseIdle(t)
    \/ DisconnectAllNext(t)
    \/ DisconnectAllCloseIdle(t)
    \/ DisconnectAllDone(t)

NextLive ==
    \/ \E t \in Tasks :
          \/ \E id \in ConnIds : ConnectCall(t, id)
          \/ \E id \in ConnIds : DisconnectCall(t, id)
          \/ DisconnectAll(t)
          \/ \E id \in ConnIds : GetPoolCall(t, id)
          \/ \E id \in ConnIds : IsConnectedCall(t, id)
          \/ ListActiveCall(t)
          \/ LockStep(t)
          \/ LocalStep(t)
    \/ \E q \in PoolIds : BeginWork(q) \/ EndWork(q)

\* Scheduling: tokio runs every task that can make progress (weak fairness
\* of the steps that wait for no lock); tokio's RwLock queues its waiters
\* first-in first-out, so a waiter gets the lock if the lock is released
\* again and again (strong fairness of the steps that wait for it); an
\* operation in flight on a pool terminates (weak fairness of EndWork).
LiveFairness ==
    /\ \A t \in Tasks : WF_vars(LocalStep(t)) /\ SF_vars(LockStep(t))
    /\ \A q \in PoolIds : WF_vars(EndWork(q))

(***************************************************************************)
(* Properties of the registry lock                                         *)
(***************************************************************************)

\* C30: the registry lock never deadlocks -- given that operations in
\* flight on a pool terminate, every call that has started (a disconnect or
\* disconnect_all holding the write guard while its close() is pending, a
\* connect, get_pool, is_connected or list_active_connections waiting for
\* the lock) eventually returns.
C30_LockNeverDeadlocks ==
    \A t \in Tasks : (tpc[t] # "idle") ~> (tpc[t] = "idle")

\* A disconnect holds the write guard and awaits close() while an
\* operation is in flight on the pool, and another call waits for the lock.
C30_Witness ==
    \E t, u \in Tasks :
        /\ tpc[t] = "disc_close"
        /\ lockWriter = t
        /\ inflight[tpool[t]] > 0
        /\ tpc[u] \in {"conn_check", "conn_insert", "get_pool", "is_connected",
                       "list_active"}

Init == MigInit /\ ConnInit /\ CredInit /\ CommitInit /\ ExportInit
        /\ IndexInit /\ DataInit /\ WorkInit

SpecMig == Init /\ [][NextMig]_vars

SpecConn == Init /\ [][NextConn]_vars

SpecPool == Init /\ [][NextPool]_vars

SpecCred == Init /\ [][NextCred]_vars

SpecCommit == Init /\ [][NextCommit]_vars

SpecExport == Init /\ [][NextExport]_vars

SpecIndex == Init /\ [][NextIndex]_vars

SpecData == Init /\ [][NextData]_vars

SpecLive == Init /\ [][NextLive]_vars /\ LiveFairness

====
